---- MODULE Spec2Model ----
(***************************************************************************)
(* A model of the design-token build script build-themes.js: the deep      *)
(* merge of token sources, the flattening of the merged tree, the          *)
(* resolution of {path} references (full and CSS display mode) and the     *)
(* build() orchestrator that writes the output files.                      *)
(*                                                                         *)
(* JavaScript strings are sequences of one-character strings, so that the  *)
(* regular-expression scan, the dot-to-hyphen conversion and the string    *)
(* coercion done by String.prototype.replace are computed, not assumed.    *)
(* A JavaScript value is a record tagged by its type:                      *)
(*   [t |-> "str", s |-> chars]      a string                              *)
(*   [t |-> "num", s |-> digits]     a number, s its decimal text          *)
(*   [t |-> "null"]                  null                                  *)
(*   [t |-> "arr", items |-> seq]    an array                              *)
(*   [t |-> "obj", kids |-> f]       an object, f its own properties       *)
(***************************************************************************)
EXTENDS Integers, Sequences, FiniteSets, TLC

VARIABLES
  flatTokens,   \* the flat token map handed to the resolver: path -> token
  call,         \* the resolver function last called, with its argument
  ret,          \* what that call returned and logged
  tokens,       \* loadJsonFiles: the tokens merged so far
  lastMerge,    \* the arguments of the last deepMerge(tokens, content)
  nLoaded,      \* loadJsonFiles: the directory items merged so far
  fsys,         \* build: the token sources on disk
  pc,           \* build: the statement the script is at
  themeIndex,   \* build: the position in THEMES of the loop under way
  themeOutputs, \* build: theme -> resolved snapshot
  written,      \* build: file name -> content, for the files written
  console,      \* build: the messages printed, in order
  exited,       \* build: the process has ended
  exitCode,     \* build: the exit status of the ended process
  heap,         \* the objects in memory: address -> object or Set
  currentTheme,     \* ThemeManager: this.currentTheme
  dataTheme,        \* the data-theme attribute of document.documentElement
  localStorage,     \* the item stored under CONFIG.STORAGE_KEYS.THEME
  storageAvailable  \* localStorage can be read and written

resolverVars == <<flatTokens, call, ret>>
loaderVars == <<tokens, lastMerge, nLoaded>>
buildVars == <<fsys, pc, themeIndex, themeOutputs, written, console, exited, exitCode>>
memoryVars == <<heap>>
pageVars == <<currentTheme, dataTheme, localStorage, storageAvailable>>
vars == <<flatTokens, call, ret, tokens, lastMerge, nLoaded,
          fsys, pc, themeIndex, themeOutputs, written, console, exited, exitCode,
          heap, currentTheme, dataTheme, localStorage, storageAvailable>>

(***************************************************************************)
(* Bounds of the model.                                                    *)
(***************************************************************************)
NTokens == 3      \* tokens in a flat token map of the resolver model
MaxDepth == 6     \* call depth at which a resolution is given up as runaway
MaxFiles == 2     \* JSON files merged by one loadJsonFiles
MaxCalls == 3     \* calls made one after the other on one flat token map

(***************************************************************************)
(* Strings and JavaScript values.                                          *)
(***************************************************************************)
Str(s) == [t |-> "str", s |-> s]
Num(s) == [t |-> "num", s |-> s]
Null == [t |-> "null"]
Arr(items) == [t |-> "arr", items |-> items]
Obj(kids) == [t |-> "obj", kids |-> kids]
NoKids == [k \in {} |-> Null]

\* The properties of an object literal with one key, and with two.
One(k, v) == [x \in {k} |-> v]
Two(k1, v1, k2, v2) == [x \in {k1, k2} |-> IF x = k1 THEN v1 ELSE v2]

\* No deepMerge has been made yet.
NoFiles == [t |-> "none"]
NoOutputs == [f \in {} |-> Null]
NoMerge == [target |-> Null, source |-> Null]

\* typeof value === 'string'
IsString(v) == v.t = "str"

\* String(value): the coercion String.prototype.replace applies to what its
\* callback returns.
StringOf(v) == v.s

\* value.includes(ch)
Includes(s, ch) == \E i \in 1..Len(s) : s[i] = ch

Max(a, b) == IF a >= b THEN a ELSE b

\* The anchored pattern ^\{[^}]+\}$: a match only when the whole string is one
\* reference.
MatchEnd_WholeString(s, i) ==
  IF /\ i = 1
     /\ Len(s) >= 3
     /\ s[1] = "{"
     /\ s[Len(s)] = "}"
     /\ \A m \in 2..(Len(s) - 1) : s[m] # "}"
  THEN Len(s) ELSE 0

\* The regular expression /\{([^}]+)\}/ tried at position i of s: the index of
\* the closing brace of the match that starts there, or 0 when none starts
\* there.  [^}]+ takes every character up to the first "}", and needs one.
MatchEnd(s, i) ==
  IF s[i] # "{" THEN 0
  ELSE LET closers == {j \in (i + 1)..Len(s) : s[j] = "}"}
       IN IF closers = {} THEN 0
          ELSE LET j == CHOOSE k \in closers : \A m \in closers : k <= m
               IN IF j >= i + 2 THEN j ELSE 0

\* refPath.replace(/\./g, '-')
RECURSIVE DotsToHyphens(_)
DotsToHyphens(s) ==
  IF s = <<>> THEN <<>>
  ELSE <<IF Head(s) = "." THEN "-" ELSE Head(s)>> \o DotsToHyphens(Tail(s))

(***************************************************************************)
(* deepMerge(target, source).                                              *)
(***************************************************************************)
KeyValue == <<"v", "a", "l", "u", "e">>

\* The property name of the i-th element of an array or character of a string.
Digits == <<"0", "1", "2", "3", "4", "5", "6", "7", "8", "9">>
IndexKey(i) == <<Digits[i]>>
IndexOf(key) == CHOOSE i \in 1..Len(Digits) : IndexKey(i) = key

\* JavaScript truthiness: null, 0 and the empty string are falsy.
Truthy(v) ==
  CASE v.t = "null" -> FALSE
    [] v.t = "num"  -> v.s # <<"0">>
    [] v.t = "str"  -> v.s # <<>>
    [] OTHER        -> TRUE

\* source[key] && typeof source[key] === 'object' && !Array.isArray(source[key])
IsPlainObject(v) == v.t = "obj"

\* node.value !== undefined
HasValue(v) == KeyValue \in DOMAIN v.kids

\* token.value
TokenValue(token) == token.kids[KeyValue]

\* { ...target }: the own enumerable properties of target.  An object gives
\* its properties, an array its elements and a string its characters under
\* their indices, anything else gives none.
Spread(v) ==
  CASE v.t = "obj" -> v.kids
    [] v.t = "arr" -> [k \in {IndexKey(i) : i \in 1..Len(v.items)} |-> v.items[IndexOf(k)]]
    [] v.t = "str" -> [k \in {IndexKey(i) : i \in 1..Len(v.s)} |-> Str(<<v.s[IndexOf(k)]>>)]
    [] OTHER       -> NoKids

\* result[key] || {}
OrEmpty(result, key) ==
  IF key \in DOMAIN result /\ Truthy(result[key]) THEN result[key] ELSE Obj(NoKids)

RECURSIVE deepMerge(_, _)

\* A shallow merge: every key of the source overwrites the target's entry.
MergedEntry_Shallow(result, source, key) ==
  IF key \in DOMAIN source THEN source[key] ELSE result[key]

\* result[key] after the loop over the keys of source.
MergedEntry(result, source, key) ==
  IF key \notin DOMAIN source THEN result[key]
  ELSE IF IsPlainObject(source[key])
  THEN IF HasValue(source[key])
       THEN source[key]
       ELSE deepMerge(OrEmpty(result, key), source[key])
  ELSE source[key]

deepMerge(target, source) ==
  Obj([key \in DOMAIN Spread(target) \cup DOMAIN source.kids |->
         MergedEntry(Spread(target), source.kids, key)])

(***************************************************************************)
(* resolveReference(value, flatTokens, seen).  A call returns              *)
(*   out      the value returned                                           *)
(*   warns    the console.warn messages it logged                          *)
(*   depth    the depth of the deepest nested call, this one counted       *)
(*   runaway  TRUE when the nesting reached MaxDepth and was cut off       *)
(***************************************************************************)
Return(v) == [out |-> v, warns |-> {}, depth |-> 1, runaway |-> FALSE]

CircularWarning(refPath) == [kind |-> "circular", path |-> refPath]

\* The copy of seen handed down without the path just followed.
NewSeen_NotAdded(seen, refPath) == seen

\* A set that holds the path just followed and forgets the ones before it.
NewSeen_OnlyLatest(seen, refPath) == {refPath}

\* new Set(seen).add(refPath)
NewSeen(seen, refPath) == seen \cup {refPath}

\* The pieces of a replace: nothing left to scan, a character kept as it is,
\* a match left as it is, the callback's result coerced to a string, and the
\* replacement of one match followed by the rest of the scan.
Nothing == [out |-> <<>>, warns |-> {}, depth |-> 0, runaway |-> FALSE]
Keep(ch, rest) == [rest EXCEPT !.out = <<ch>> \o @]
Unreplaced(match) == [out |-> match, warns |-> {}, depth |-> 0, runaway |-> FALSE]
Coerced(r) == [r EXCEPT !.out = StringOf(@)]
Join(one, rest) ==
  [out     |-> one.out \o rest.out,
   warns   |-> one.warns \cup rest.warns,
   depth   |-> Max(one.depth, rest.depth),
   runaway |-> one.runaway \/ rest.runaway]

\* What a call that ran value.replace returns: the new string; its nesting is
\* one deeper than the deepest call its callback made.
Replaced(r) == [r EXCEPT !.out = Str(@), !.depth = @ + 1]

RECURSIVE resolveReference(_, _, _, _)
RECURSIVE ReplaceResolve(_, _, _, _, _)

\* A callback that returns the value of the token without resolving it.
ResolveCallback_OneHop(match, refPath, flat, seen, fuel) ==
  IF refPath \in seen
  THEN [Unreplaced(match) EXCEPT !.warns = {CircularWarning(refPath)}]
  ELSE IF refPath \in DOMAIN flat /\ HasValue(flat[refPath])
  THEN Coerced(Return(TokenValue(flat[refPath])))
  ELSE Unreplaced(match)

\* The callback of value.replace in resolveReference, for one match.
ResolveCallback(match, refPath, flat, seen, fuel) ==
  IF refPath \in seen
  THEN [Unreplaced(match) EXCEPT !.warns = {CircularWarning(refPath)}]
  ELSE IF refPath \in DOMAIN flat /\ HasValue(flat[refPath])
  THEN Coerced(resolveReference(TokenValue(flat[refPath]), flat,
                                NewSeen(seen, refPath), fuel - 1))
  ELSE Unreplaced(match)

\* value.replace(/\{([^}]+)\}/g, callback) from position i on: every match is
\* replaced by what the callback returns, the other characters are kept.
ReplaceResolve(s, i, flat, seen, fuel) ==
  IF i > Len(s) THEN Nothing
  ELSE IF MatchEnd(s, i) = 0
  THEN Keep(s[i], ReplaceResolve(s, i + 1, flat, seen, fuel))
  ELSE Join(ResolveCallback(SubSeq(s, i, MatchEnd(s, i)),
                            SubSeq(s, i + 1, MatchEnd(s, i) - 1),
                            flat, seen, fuel),
            ReplaceResolve(s, MatchEnd(s, i) + 1, flat, seen, fuel))

\* A call that finds the nesting at MaxDepth is cut off and marked runaway.
resolveReference(value, flat, seen, fuel) ==
  IF fuel = 0 THEN [Return(value) EXCEPT !.runaway = TRUE]
  ELSE IF ~IsString(value) THEN Return(value)
  ELSE IF ~Includes(value.s, "{") THEN Return(value)
  ELSE Replaced(ReplaceResolve(value.s, 1, flat, seen, fuel))

\* resolveReference(value, flatTokens) as its callers use it: seen = new Set().
Resolve(value, flat) == resolveReference(value, flat, {}, MaxDepth)

(***************************************************************************)
(* toCSSSyntax(value, flatTokens): a reference to an existing token becomes *)
(* var(--path-with-hyphens); any other match is handed to resolveReference. *)
(***************************************************************************)
CssVar(refPath) == <<"v", "a", "r", "(", "-", "-">> \o DotsToHyphens(refPath) \o <<")">>

\* The callback of value.replace in toCSSSyntax, for one match.
CssCallback(match, refPath, flat) ==
  IF refPath \in DOMAIN flat
  THEN Unreplaced(CssVar(refPath))
  ELSE Coerced(Resolve(Str(match), flat))

RECURSIVE ReplaceCss(_, _, _)
ReplaceCss(s, i, flat) ==
  IF i > Len(s) THEN Nothing
  ELSE IF MatchEnd(s, i) = 0
  THEN Keep(s[i], ReplaceCss(s, i + 1, flat))
  ELSE Join(CssCallback(SubSeq(s, i, MatchEnd(s, i)),
                        SubSeq(s, i + 1, MatchEnd(s, i) - 1), flat),
            ReplaceCss(s, MatchEnd(s, i) + 1, flat))

toCSSSyntax(value, flat) ==
  IF ~IsString(value) THEN Return(value)
  ELSE IF ~Includes(value.s, "{") THEN Return(value)
  ELSE Replaced(ReplaceCss(value.s, 1, flat))

(***************************************************************************)
(* resolveTokens(flatTokens): every token with its cssValue and its        *)
(* resolvedValue.  warns collects what the calls logged.  A record of the  *)
(* snapshot shows the three properties the generators read; the other      *)
(* properties of the token are copied and never read.                      *)
(***************************************************************************)
\* The resolved snapshot, from what the two calls made for each key returned.
Snapshot(flat, css, full) ==
  [snapshot |-> [key \in DOMAIN flat |->
                   [value         |-> TokenValue(flat[key]),
                    cssValue      |-> css[key].out,
                    resolvedValue |-> full[key].out]],
   warns    |-> UNION {css[key].warns \cup full[key].warns : key \in DOMAIN flat},
   runaway  |-> \E key \in DOMAIN flat : css[key].runaway \/ full[key].runaway]

resolveTokens(flat) ==
  Snapshot(flat,
           [key \in DOMAIN flat |-> toCSSSyntax(TokenValue(flat[key]), flat)],
           [key \in DOMAIN flat |-> Resolve(TokenValue(flat[key]), flat)])

(***************************************************************************)
(* The token sources on disk and loadThemeTokens(theme).  A file is        *)
(* Missing, Unparsable (JSON.parse throws a SyntaxError) or the object it  *)
(* parses to; a directory is the sequence of its .json files.              *)
(***************************************************************************)
\* THEMES
CLASSIC_LIGHT == <<"c", "l", "a", "s", "s", "i", "c", "-", "l", "i", "g", "h", "t">>
CLASSIC_DARK == <<"c", "l", "a", "s", "s", "i", "c", "-", "d", "a", "r", "k">>
ADVANCE_LIGHT == <<"a", "d", "v", "a", "n", "c", "e", "-", "l", "i", "g", "h", "t">>
ADVANCE_DARK == <<"a", "d", "v", "a", "n", "c", "e", "-", "d", "a", "r", "k">>
THEMES == <<CLASSIC_LIGHT,
            CLASSIC_DARK,
            ADVANCE_LIGHT,
            ADVANCE_DARK>>
ThemeSet == {THEMES[i] : i \in 1..Len(THEMES)}

Missing == [t |-> "missing"]
Unparsable == [t |-> "unparsable"]

\* fs.existsSync(file)
Exists(file) == file # Missing

\* loadJsonFiles(dir): the files of the directory merged in listing order
RECURSIVE loadJsonFiles(_)
loadJsonFiles(dir) ==
  IF dir = <<>> THEN Obj(NoKids)
  ELSE deepMerge(loadJsonFiles(SubSeq(dir, 1, Len(dir) - 1)), dir[Len(dir)])

\* The .json files of tokens/foundation: spacing.json and the theme files
\* that exist.  loadThemeTokens parses them all, whatever the theme.
FoundationDir(fs) ==
  ({fs.spacing} \cup {fs.theme[th] : th \in ThemeSet}) \ {Missing}

\* loadThemeTokens(theme) throws: some file it parses is no JSON.
LoadThrows(fs) ==
  \/ \E i \in 1..Len(fs.color) : fs.color[i] = Unparsable
  \/ Unparsable \in FoundationDir(fs)
  \/ \E i \in 1..Len(fs.components) : fs.components[i] = Unparsable

\* tokens = deepMerge(tokens, content) when the file exists
MergeIfExists(tokens_, file) ==
  IF Exists(file) THEN deepMerge(tokens_, file) ELSE tokens_

\* A loader that merges the file of every theme, the theme's own last
loadThemeTokens_EveryTheme(theme, fs) ==
  deepMerge(MergeIfExists(MergeIfExists(MergeIfExists(MergeIfExists(MergeIfExists(
              MergeIfExists(deepMerge(Obj(NoKids), loadJsonFiles(fs.color)), fs.spacing),
              fs.theme[CLASSIC_LIGHT]), fs.theme[CLASSIC_DARK]), fs.theme[ADVANCE_LIGHT]),
              fs.theme[ADVANCE_DARK]), fs.theme[theme]),
            loadJsonFiles(fs.components))

loadThemeTokens(theme, fs) ==
  deepMerge(MergeIfExists(MergeIfExists(deepMerge(Obj(NoKids), loadJsonFiles(fs.color)),
                                        fs.spacing),
                          fs.theme[theme]),
            loadJsonFiles(fs.components))

(***************************************************************************)
(* flattenTokens(obj, prefix)                                              *)
(***************************************************************************)
\* prefix ? `${prefix}.${key}` : key
NewKey(prefix, key) == IF prefix = <<>> THEN key ELSE prefix \o <<".">> \o key

\* value && typeof value === 'object': objects and arrays, not null
IsObjectLike(v) == v.t \in {"obj", "arr"}

\* value.value !== undefined
IsTokenNode(v) == v.t = "obj" /\ HasValue(v)

\* The entries <<path, token>> that the traversal assigns to result.
RECURSIVE FlatEntries(_, _)
FlatEntries(kids, prefix) ==
  UNION {IF ~IsObjectLike(kids[key]) THEN {}
         ELSE IF IsTokenNode(kids[key]) THEN {<<NewKey(prefix, key), kids[key]>>}
         ELSE FlatEntries(Spread(kids[key]), NewKey(prefix, key))
           : key \in DOMAIN kids}

\* The object built from the entries; of two entries with one path the code
\* keeps the one assigned last.
FromEntries(entries) ==
  [path \in {e[1] : e \in entries} |-> (CHOOSE e \in entries : e[1] = path)[2]]

flattenTokens(obj) == FromEntries(FlatEntries(Spread(obj), <<>>))

(***************************************************************************)
(* Object.entries(resolvedTokens).sort(([a], [b]) => a.localeCompare(b)).  *)
(* localeCompare is modelled on the characters of the token paths:         *)
(* punctuation before digits before letters, a prefix before its           *)
(* extensions, the case of the letters looked at only when the strings are *)
(* equal apart from it, and then lower case first.                         *)
(***************************************************************************)
LowerCase == <<"a", "b", "c", "d", "e", "f", "g", "h", "i", "j", "k", "l", "m", "n", "o", "p", "q", "r", "s", "t", "u", "v", "w", "x", "y", "z">>
UpperCase == <<"A", "B", "C", "D", "E", "F", "G", "H", "I", "J", "K", "L", "M", "N", "O", "P", "Q", "R", "S", "T", "U", "V", "W", "X", "Y", "Z">>

IsUpper(ch) == \E i \in 1..Len(UpperCase) : UpperCase[i] = ch

\* ch.toLowerCase()
LowerChar(ch) ==
  IF IsUpper(ch) THEN LowerCase[CHOOSE i \in 1..Len(UpperCase) : UpperCase[i] = ch] ELSE ch

Collation == <<"_", "-", ".", "0", "1", "2", "3", "4", "5", "6", "7", "8", "9",
               "a", "b", "c", "d", "e", "f", "g", "h", "i", "j", "k", "l", "m",
               "n", "o", "p", "q", "r", "s", "t", "u", "v", "w", "x", "y", "z">>
\* The place in the collation of every character it orders, capital letters
\* at the place of their small letters
Ranks ==
  [ch \in {Collation[i] : i \in 1..Len(Collation)} \cup {UpperCase[i] : i \in 1..Len(UpperCase)} |->
     CHOOSE i \in 1..Len(Collation) : Collation[i] = LowerChar(ch)]
Rank(ch) == IF ch \in DOMAIN Ranks THEN Ranks[ch] ELSE 0

\* The comparison of the letters, the case left aside: negative, 0, positive
RECURSIVE PrimaryCompare(_, _)
PrimaryCompare(a, b) ==
  IF a = <<>> THEN (IF b = <<>> THEN 0 ELSE 0 - 1)
  ELSE IF b = <<>> THEN 1
  ELSE IF Rank(Head(a)) # Rank(Head(b)) THEN Rank(Head(a)) - Rank(Head(b))
  ELSE PrimaryCompare(Tail(a), Tail(b))

\* The comparison by case of two strings of one length that differ in case
\* only: the first difference decides, lower case first.
RECURSIVE CaseCompare(_, _)
CaseCompare(a, b) ==
  IF a = <<>> THEN 0
  ELSE IF Head(a) = Head(b) THEN CaseCompare(Tail(a), Tail(b))
  ELSE IF IsUpper(Head(b)) THEN 0 - 1
  ELSE 1

\* a.localeCompare(b)
OrByCase(primary, a, b) == IF primary # 0 THEN primary ELSE CaseCompare(a, b)
localeCompare(a, b) == OrByCase(PrimaryCompare(a, b), a, b)

\* a.localeCompare(b) <= 0
Precedes(a, b) == localeCompare(a, b) <= 0

\* The entries in insertion order, without the comparator: no sorting
sort_InsertionOrder(entries) == entries

\* entries.sort(comparator): the sort is stable, so an entry goes behind the
\* entries it does not come before.
RECURSIVE Insert(_, _)
Insert(path, sorted) ==
  IF sorted = <<>> THEN <<path>>
  ELSE IF localeCompare(path, Head(sorted)) < 0 THEN <<path>> \o sorted
  ELSE <<Head(sorted)>> \o Insert(path, Tail(sorted))

RECURSIVE SortFrom(_, _)
SortFrom(entries, sorted) ==
  IF entries = <<>> THEN sorted
  ELSE SortFrom(Tail(entries), Insert(Head(entries), sorted))

sort(entries) == SortFrom(entries, <<>>)

\* The sorted paths of an object whose insertion order is not kept: the
\* ascending sequence of its keys.
First(paths) == CHOOSE p \in paths : \A q \in paths : Precedes(p, q)

RECURSIVE Sorted(_)
Sorted(paths) ==
  IF paths = {} THEN <<>>
  ELSE <<First(paths)>> \o Sorted(paths \ {First(paths)})

(***************************************************************************)
(* The generators of the web outputs.                                      *)
(***************************************************************************)
\* toCSSVarName(tokenPath)
toCSSVarName(tokenPath) == <<"-", "-">> \o DotsToHyphens(tokenPath)

\* value && typeof value === 'string'
IsNonEmptyString(v) == IsString(v) /\ v.s # <<>>

\* The declarations of one theme block: a line for every token whose cssValue
\* is a non-empty string, in ascending order of the paths.
RECURSIVE CssLines(_, _)
CssLines(resolved, paths) ==
  IF paths = <<>> THEN <<>>
  ELSE (IF IsNonEmptyString(resolved[Head(paths)].cssValue)
        THEN <<[name  |-> toCSSVarName(Head(paths)),
                value |-> resolved[Head(paths)].cssValue.s]>>
        ELSE <<>>)
       \o CssLines(resolved, Tail(paths))

\* generateThemeCSS(resolvedTokens, theme, isDefault): the selector is
\* :root, [data-theme="theme"] for the default theme, [data-theme="theme"]
\* for the others.
generateThemeCSS(resolved, theme, isDefault) ==
  [root |-> isDefault, theme |-> theme,
   lines |-> CssLines(resolved, Sorted(DOMAIN resolved))]

\* tokens.css: the block of every theme, classic-light as the default
TokensCss(outputs) ==
  [i \in 1..Len(THEMES) |-> generateThemeCSS(outputs[THEMES[i]], THEMES[i], i = 1)]

\* tokens.json: value and resolvedValue of every token of every theme
TokensJson(outputs) ==
  [th \in ThemeSet |->
     [path \in DOMAIN outputs[th] |->
        [value         |-> outputs[th][path].value,
         resolvedValue |-> outputs[th][path].resolvedValue]]]

(***************************************************************************)
(* String and number functions of JavaScript that the platform generators  *)
(* use.                                                                    *)
(***************************************************************************)
\* ch.toUpperCase()
UpperChar(ch) ==
  IF \E i \in 1..Len(LowerCase) : LowerCase[i] = ch
  THEN UpperCase[CHOOSE i \in 1..Len(LowerCase) : LowerCase[i] = ch]
  ELSE ch

\* s.toUpperCase()
toUpperCase(s) == [i \in 1..Len(s) |-> UpperChar(s[i])]

\* s.startsWith(prefix), s.endsWith(suffix)
startsWith(s, prefix) ==
  Len(s) >= Len(prefix) /\ SubSeq(s, 1, Len(prefix)) = prefix
endsWith(s, suffix) ==
  Len(s) >= Len(suffix) /\ SubSeq(s, Len(s) - Len(suffix) + 1, Len(s)) = suffix

\* The positions at which sub occurs in s
Occurrences(s, sub) ==
  {i \in 1..(Len(s) - Len(sub) + 1) : SubSeq(s, i, i + Len(sub) - 1) = sub}

\* s.includes(sub)
includes(s, sub) == Occurrences(s, sub) # {}

Least(S) == CHOOSE i \in S : \A j \in S : i <= j

\* s.replace(sub, by) with a string pattern: the first occurrence only
replaceFirst(s, sub, by) ==
  IF ~includes(s, sub) THEN s
  ELSE SubSeq(s, 1, Least(Occurrences(s, sub)) - 1) \o by
       \o SubSeq(s, Least(Occurrences(s, sub)) + Len(sub), Len(s))

\* s.slice(from, to) with 0 <= from <= to, the indices counted from 0
slice(s, from, to) ==
  SubSeq(s, from + 1, IF to <= Len(s) THEN to ELSE Len(s))

\* s.split(sep) for a one-character separator
RECURSIVE split(_, _)
split(s, sep) ==
  IF ~Includes(s, sep) THEN <<s>>
  ELSE <<SubSeq(s, 1, Least({i \in 1..Len(s) : s[i] = sep}) - 1)>>
       \o split(SubSeq(s, Least({i \in 1..Len(s) : s[i] = sep}) + 1, Len(s)), sep)

\* s.trim(), for blanks
RECURSIVE trim(_)
trim(s) ==
  IF s = <<>> THEN s
  ELSE IF Head(s) = " " THEN trim(Tail(s))
  ELSE IF s[Len(s)] = " " THEN trim(SubSeq(s, 1, Len(s) - 1))
  ELSE s

IsDigit(ch) == \E i \in 1..Len(Digits) : Digits[i] = ch
DigitValue(ch) == IndexOf(<<ch>>) - 1

HexDigits == <<"0", "1", "2", "3", "4", "5", "6", "7", "8", "9", "a", "b", "c", "d", "e", "f">>
IsHexDigit(ch) == \E i \in 1..Len(HexDigits) : HexDigits[i] = ch \/ UpperChar(HexDigits[i]) = ch
HexValue(ch) ==
  (CHOOSE i \in 1..Len(HexDigits) : HexDigits[i] = ch \/ UpperChar(HexDigits[i]) = ch) - 1

\* The length of the run of characters from position i on that satisfy the
\* digit test: decimal when hex is FALSE, hexadecimal when TRUE.
RECURSIVE Run(_, _, _)
Run(s, i, hex) ==
  IF i > Len(s) THEN 0
  ELSE IF (IF hex THEN IsHexDigit(s[i]) ELSE IsDigit(s[i])) THEN 1 + Run(s, i + 1, hex)
  ELSE 0

\* The value of the numeral s in the given base
RECURSIVE Numeral(_, _)
Numeral(s, base) ==
  IF s = <<>> THEN 0
  ELSE Numeral(SubSeq(s, 1, Len(s) - 1), base) * base
       + (IF base = 16 THEN HexValue(s[Len(s)]) ELSE DigitValue(s[Len(s)]))

RECURSIVE Power10(_)
Power10(n) == IF n = 0 THEN 1 ELSE 10 * Power10(n - 1)

\* A JavaScript number: NaN, or the fraction num / den with den a power of 10.
NaN == [nan |-> TRUE, num |-> 0, den |-> 1]
Number(num, den) == [nan |-> FALSE, num |-> num, den |-> den]

\* parseFloat(s) once the blanks and the sign are read: digits, then
\* optionally a point and digits; what follows is ignored.  Exponents and
\* Infinity are not read here.
Unsigned(s) ==
  IF Run(s, 1, FALSE) = 0 /\ ~(startsWith(s, <<".">>) /\ Run(s, 2, FALSE) > 0)
  THEN NaN
  ELSE IF Run(s, 1, FALSE) < Len(s) /\ s[Run(s, 1, FALSE) + 1] = "."
  THEN Number(Numeral(SubSeq(s, 1, Run(s, 1, FALSE)), 10)
                * Power10(Run(s, Run(s, 1, FALSE) + 2, FALSE))
              + Numeral(SubSeq(s, Run(s, 1, FALSE) + 2,
                               Run(s, 1, FALSE) + 1 + Run(s, Run(s, 1, FALSE) + 2, FALSE)), 10),
              Power10(Run(s, Run(s, 1, FALSE) + 2, FALSE)))
  ELSE Number(Numeral(SubSeq(s, 1, Run(s, 1, FALSE)), 10), 1)

Negated(x) == [x EXCEPT !.num = 0 - @]

\* parseFloat(s)
parseFloat(s) ==
  IF startsWith(trim(s), <<"-">>) THEN Negated(Unsigned(Tail(trim(s))))
  ELSE IF startsWith(trim(s), <<"+">>) THEN Unsigned(Tail(trim(s)))
  ELSE Unsigned(trim(s))

\* parseInt(s, 16) of a slice of hex digits: the leading hex digits count
parseHex(s) ==
  IF Run(s, 1, TRUE) = 0 THEN NaN
  ELSE Number(Numeral(SubSeq(s, 1, Run(s, 1, TRUE)), 16), 1)

\* The product cut off at the point: Math.floor for a product that is not
\* negative.
Round_TowardsZero(x, factor) ==
  IF x.nan THEN NaN
  ELSE Number((x.num * factor) \div x.den, 1)

\* Math.round(x * factor): the nearest integer, halves rounded up
Round(x, factor) ==
  IF x.nan THEN NaN
  ELSE Number((2 * x.num * factor + x.den) \div (2 * x.den), 1)

\* n.toString(16) of a natural number
RECURSIVE HexNumeral(_)
HexNumeral(n) ==
  IF n < 16 THEN <<HexDigits[n + 1]>>
  ELSE HexNumeral(n \div 16) \o <<HexDigits[(n % 16) + 1]>>

\* x.toString(16) of an integer or NaN
toString16(x) ==
  IF x.nan THEN <<"N", "a", "N">>
  ELSE IF x.num < 0 THEN <<"-">> \o HexNumeral(0 - x.num)
  ELSE HexNumeral(x.num)

\* s.padStart(2, '0')
padStart2(s) ==
  IF Len(s) = 0 THEN <<"0", "0">> ELSE IF Len(s) = 1 THEN <<"0">> \o s ELSE s

(***************************************************************************)
(* The generators of the Android and iOS outputs.  A conversion that the   *)
(* code answers with null gives NoColor.                                   *)
(***************************************************************************)
TRANSPARENT == <<"t", "r", "a", "n", "s", "p", "a", "r", "e", "n", "t">>
FONT_SIZE == <<"f", "o", "n", "t", "S", "i", "z", "e">>
PX == <<"p", "x">>
NoColor == <<>>

\* toAndroidResourceName(tokenPath)
toAndroidResourceName(tokenPath) ==
  [i \in 1..Len(tokenPath) |-> IF tokenPath[i] = "." THEN "_" ELSE tokenPath[i]]

\* part.charAt(0).toUpperCase() + part.slice(1)
Capitalized(part) == IF part = <<>> THEN part ELSE <<UpperChar(Head(part))>> \o Tail(part)

RECURSIVE JoinCapitalized(_)
JoinCapitalized(parts) ==
  IF parts = <<>> THEN <<>> ELSE Capitalized(Head(parts)) \o JoinCapitalized(Tail(parts))

\* toSwiftPropertyName(tokenPath)
toSwiftPropertyName(tokenPath) ==
  Head(split(tokenPath, ".")) \o JoinCapitalized(Tail(split(tokenPath, ".")))

\* isColor(value)
isColor(v) ==
  /\ IsString(v)
  /\ \/ startsWith(v.s, <<"#">>)
     \/ startsWith(v.s, <<"r", "g", "b">>)
     \/ v.s = TRANSPARENT

\* hex.match(/rgba?\(([^)]+)\)/) tried at position i: the index of the opening
\* parenthesis of a match that starts there, or 0
RgbOpenAt(s, i) ==
  IF i \in Occurrences(s, <<"r", "g", "b", "a", "(">>) THEN i + 4
  ELSE IF i \in Occurrences(s, <<"r", "g", "b", "(">>) THEN i + 3
  ELSE 0

\* The positions at which the pattern matches: the parenthesis is followed by
\* at least one character other than ")" and then by ")".
RgbMatches(s) ==
  {i \in 1..Len(s) :
     /\ RgbOpenAt(s, i) # 0
     /\ \E j \in (RgbOpenAt(s, i) + 2)..Len(s) :
          /\ s[j] = ")"
          /\ \A m \in (RgbOpenAt(s, i) + 1)..(j - 1) : s[m] # ")"}

\* match[1]: the text between the parentheses of the first match
RgbGroup(s) ==
  SubSeq(s, RgbOpenAt(s, Least(RgbMatches(s))) + 1,
         Least({j \in (RgbOpenAt(s, Least(RgbMatches(s))) + 1)..Len(s) : s[j] = ")"}) - 1)

\* match[1].split(',').map(p => parseFloat(p.trim()))
RgbParts(s) ==
  [i \in 1..Len(split(RgbGroup(s), ",")) |-> parseFloat(trim(split(RgbGroup(s), ",")[i]))]

\* Math.round(part * factor).toString(16).padStart(2, '0'); a part that the
\* array does not hold is undefined, which rounds to NaN.
HexByte(parts, i, factor) ==
  padStart2(toString16(IF i <= Len(parts) THEN Round(parts[i], factor) ELSE NaN))

\* `#${a}${r}${g}${b}`.toUpperCase()
RgbaToAndroid(parts) ==
  toUpperCase(<<"#">>
              \o (IF Len(parts) > 3 THEN HexByte(parts, 4, 255) ELSE <<"F", "F">>)
              \o HexByte(parts, 1, 1) \o HexByte(parts, 2, 1) \o HexByte(parts, 3, 1))

\* hexToAndroidColor(hex), for a string
hexToAndroidColor(hex) ==
  IF hex = TRANSPARENT THEN <<"#", "0", "0", "0", "0", "0", "0", "0", "0">>
  ELSE IF hex = <<>> THEN NoColor
  ELSE IF startsWith(hex, <<"#">>)
  THEN IF Len(hex) = 7 THEN <<"#", "F", "F">> \o toUpperCase(Tail(hex))
       ELSE IF Len(hex) = 9 THEN <<"#">> \o toUpperCase(Tail(hex))
       ELSE toUpperCase(hex)
  ELSE IF startsWith(hex, <<"r", "g", "b", "a">>) /\ RgbMatches(hex) # {}
  THEN RgbaToAndroid(RgbParts(hex))
  ELSE NoColor

\* The paths, in order, whose token passes a generator's test
RECURSIVE Passing(_, _)
Passing(paths, passes) ==
  IF paths = <<>> THEN <<>>
  ELSE (IF Head(paths) \in passes THEN <<Head(paths)>> ELSE <<>>)
       \o Passing(Tail(paths), passes)

\* generateAndroidColors(resolvedTokens, theme): the <color> elements
AndroidColorEmits(value) == isColor(value) /\ hexToAndroidColor(value.s) # NoColor
AndroidColorLine(path, value) ==
  [name |-> toAndroidResourceName(path), value |-> hexToAndroidColor(value.s)]
AndroidColorLines(resolved, paths) ==
  [i \in 1..Len(paths) |-> AndroidColorLine(paths[i], resolved[paths[i]].resolvedValue)]
AndroidColorsOf(resolved, sorted) ==
  AndroidColorLines(resolved,
    Passing(sorted, {p \in DOMAIN resolved : AndroidColorEmits(resolved[p].resolvedValue)}))
generateAndroidColors(resolved, theme) ==
  [theme |-> theme, lines |-> AndroidColorsOf(resolved, Sorted(DOMAIN resolved))]

\* generateAndroidDimens(resolvedTokens): the <dimen> elements
DimenEmits(value) == IsString(value) /\ endsWith(value.s, PX)
DimenLine(path, value, unit) ==
  [name |-> toAndroidResourceName(path), value |-> replaceFirst(value.s, PX, unit)]
DimenLines(resolved, paths, unit) ==
  [i \in 1..Len(paths) |-> DimenLine(paths[i], resolved[paths[i]].resolvedValue, unit)]
AndroidDimensOf(resolved, sorted) ==
  DimenLines(resolved,
    Passing(sorted, {p \in DOMAIN resolved : DimenEmits(resolved[p].resolvedValue)}),
    <<"d", "p">>)
generateAndroidDimens(resolved) ==
  [lines |-> AndroidDimensOf(resolved, Sorted(DOMAIN resolved))]

\* generateAndroidFontDimens(resolvedTokens)
FontDimenEmits(path, value) == includes(path, FONT_SIZE) /\ DimenEmits(value)
generateAndroidFontDimens(resolved) ==
  [lines |-> DimenLines(resolved,
               Passing(Sorted(DOMAIN resolved),
                       {p \in DOMAIN resolved : FontDimenEmits(p, resolved[p].resolvedValue)}),
               <<"s", "p">>)]

\* The decimal numeral of a natural number
RECURSIVE DecNumeral(_)
DecNumeral(n) ==
  IF n < 10 THEN <<Digits[n + 1]>>
  ELSE DecNumeral(n \div 10) \o <<Digits[(n % 10) + 1]>>

\* The numeral of n written with at least `width` digits
RECURSIVE Padded(_, _)
Padded(n, width) ==
  IF width <= 1 THEN DecNumeral(n)
  ELSE IF n < Power10(width - 1) THEN <<"0">> \o Padded(n, width - 1)
  ELSE DecNumeral(n)

\* The nearest number of thousandths to num / den, for den > 0
Thousandths(num, den) ==
  IF num >= 0 THEN (2000 * num + den) \div (2 * den)
  ELSE 0 - ((2000 * (0 - num) + den) \div (2 * den))

FixedText(t) ==
  (IF t < 0 THEN <<"-">> ELSE <<>>)
  \o DecNumeral((IF t < 0 THEN 0 - t ELSE t) \div 1000) \o <<".">>
  \o Padded((IF t < 0 THEN 0 - t ELSE t) % 1000, 3)

\* (x / divisor).toFixed(3)
toFixed3(x, divisor) ==
  IF x.nan THEN <<"N", "a", "N">> ELSE FixedText(Thousandths(x.num, x.den * divisor))

\* The fraction digits of num / den, for num < den and den a power of 10,
\* without the trailing zeros
RECURSIVE FractionText(_, _)
FractionText(num, den) ==
  IF num = 0 THEN <<>>
  ELSE <<Digits[((num * 10) \div den) + 1]>> \o FractionText((num * 10) % den, den)

Magnitude(x) == IF x < 0 THEN 0 - x ELSE x

\* `${x}` for a number read by parseFloat
NumberText(x) ==
  IF x.nan THEN <<"N", "a", "N">>
  ELSE (IF x.num < 0 THEN <<"-">> ELSE <<>>)
       \o DecNumeral(Magnitude(x.num) \div x.den)
       \o (IF Magnitude(x.num) % x.den = 0 THEN <<>>
           ELSE <<".">> \o FractionText(Magnitude(x.num) % x.den, x.den))

\* UIColor(red: .., green: .., blue: .., alpha: ..)
UIColor(red, green, blue, alpha) ==
  [red |-> red, green |-> green, blue |-> blue, alpha |-> alpha]
UIColorClear == [clear |-> TRUE]

One1 == Number(1, 1)
PartOr(parts, i) == IF i <= Len(parts) THEN parts[i] ELSE NaN

HexToUI(color) ==
  UIColor(toFixed3(parseHex(slice(color, 0, 2)), 255),
          toFixed3(parseHex(slice(color, 2, 4)), 255),
          toFixed3(parseHex(slice(color, 4, 6)), 255),
          IF Len(color) = 8 THEN toFixed3(parseHex(slice(color, 6, 8)), 255)
          ELSE toFixed3(One1, 1))

RgbaToUI(parts) ==
  UIColor(toFixed3(PartOr(parts, 1), 255),
          toFixed3(PartOr(parts, 2), 255),
          toFixed3(PartOr(parts, 3), 255),
          IF Len(parts) > 3 THEN toFixed3(parts[4], 1) ELSE toFixed3(One1, 1))

\* hexToUIColor(hex), for a string
hexToUIColor(hex) ==
  IF hex = TRANSPARENT THEN UIColorClear
  ELSE IF hex = <<>> THEN NoColor
  ELSE IF startsWith(hex, <<"#">>) THEN HexToUI(Tail(hex))
  ELSE IF startsWith(hex, <<"r", "g", "b", "a">>) /\ RgbMatches(hex) # {}
  THEN RgbaToUI(RgbParts(hex))
  ELSE NoColor

\* StyleDictionaryColor<Theme>: the theme's parts capitalised and joined
ClassName(theme) ==
  <<"S", "t", "y", "l", "e", "D", "i", "c", "t", "i", "o", "n", "a", "r", "y",
    "C", "o", "l", "o", "r">> \o JoinCapitalized(split(theme, "-"))

\* generateSwiftColors(resolvedTokens, theme): the static properties
SwiftColorEmits(value) == isColor(value) /\ hexToUIColor(value.s) # NoColor
SwiftColorLine(path, value) ==
  [name |-> toSwiftPropertyName(path), value |-> hexToUIColor(value.s)]
SwiftColorLines(resolved, paths) ==
  [i \in 1..Len(paths) |-> SwiftColorLine(paths[i], resolved[paths[i]].resolvedValue)]
SwiftColorsOf(resolved, sorted) ==
  SwiftColorLines(resolved,
    Passing(sorted, {p \in DOMAIN resolved : SwiftColorEmits(resolved[p].resolvedValue)}))
generateSwiftColors(resolved, theme) ==
  [className |-> ClassName(theme),
   theme |-> theme,
   lines |-> SwiftColorsOf(resolved, Sorted(DOMAIN resolved))]

\* generateSwiftShared(resolvedTokens): the CGFloat properties
SharedEmits(path, value) == DimenEmits(value) /\ ~includes(path, FONT_SIZE)
SharedLine(path, value) ==
  [name |-> toSwiftPropertyName(path), value |-> NumberText(parseFloat(value.s))]
SharedLines(resolved, paths) ==
  [i \in 1..Len(paths) |-> SharedLine(paths[i], resolved[paths[i]].resolvedValue)]
generateSwiftShared(resolved) ==
  [lines |-> SharedLines(resolved,
               Passing(Sorted(DOMAIN resolved),
                       {p \in DOMAIN resolved : SharedEmits(p, resolved[p].resolvedValue)}))]

(***************************************************************************)
(* The resolver model: a flat token map is drawn, then one of the resolver *)
(* functions is called on it.  The token paths are c.a, c.b, ...; c.z is   *)
(* never a token.  The authored values cover the literals (two strings and *)
(* a number), a single reference to every path, references embedded in     *)
(* text, two references in one string, and braces that form no reference.  *)
(***************************************************************************)
Letters == <<"a", "b", "d", "e", "f", "g">>
PathOf(i) == <<"c", ".", Letters[i]>>
Paths == {PathOf(i) : i \in 1..NTokens}
MissingPath == <<"c", ".", "z">>

RefText(p) == <<"{">> \o p \o <<"}">>
Ref(p) == Str(RefText(p))
Embedded(p) == Str(<<"1", " ">> \o RefText(p))
TwoRefs(p, q) == Str(RefText(p) \o <<" ">> \o RefText(q))

Literals == {Str(<<"#", "0">>), Str(<<"#", "1">>), Num(<<"4">>)}
SingleRefs == {Ref(p) : p \in Paths \cup {MissingPath}}
Composites == {Embedded(PathOf(1)), Embedded(MissingPath),
               TwoRefs(PathOf(1), PathOf(2)), TwoRefs(PathOf(2), MissingPath)}
BraceTexts == {Str(<<"{", "}">>), Str(<<"{", "{", "c", ".", "a", "}">>)}
Values == Literals \cup SingleRefs \cup Composites \cup BraceTexts

NoCall == [fn |-> "none"]
NoRet == [out |-> Str(<<>>), warns |-> {}, depth |-> 0, runaway |-> FALSE]

\* Nothing is in memory.
MemoryIdle == heap = <<>>

\* No page is open.
PageIdle ==
  /\ currentTheme = Null
  /\ dataTheme = Null
  /\ localStorage = Null
  /\ storageAvailable = FALSE

\* The build script is not running.
BuildIdle ==
  /\ fsys = NoFiles
  /\ pc = "idle"
  /\ themeIndex = 0
  /\ themeOutputs = NoOutputs
  /\ written = NoOutputs
  /\ console = <<>>
  /\ exited = FALSE
  /\ exitCode = 0

InitResolve ==
  /\ flatTokens \in [Paths -> {Obj(One(KeyValue, v)) : v \in Values}]
  /\ call = NoCall
  /\ ret = NoRet
  /\ tokens = Obj(NoKids)
  /\ lastMerge = NoMerge
  /\ nLoaded = 0
  /\ BuildIdle
  /\ MemoryIdle
  /\ PageIdle

\* resolveReference(token.value, flatTokens) for the token at path p
ResolveReferenceCall(p) ==
  /\ call = NoCall
  /\ call' = [fn |-> "resolveReference", path |-> p]
  /\ ret' = Resolve(TokenValue(flatTokens[p]), flatTokens)
  /\ UNCHANGED <<memoryVars, pageVars, flatTokens, loaderVars, buildVars>>

\* toCSSSyntax(token.value, flatTokens) for the token at path p
ToCSSSyntaxCall(p) ==
  /\ call = NoCall
  /\ call' = [fn |-> "toCSSSyntax", path |-> p]
  /\ ret' = toCSSSyntax(TokenValue(flatTokens[p]), flatTokens)
  /\ UNCHANGED <<memoryVars, pageVars, flatTokens, loaderVars, buildVars>>

\* resolveTokens(flatTokens)
ResolveTokensCall ==
  /\ call = NoCall
  /\ call' = [fn |-> "resolveTokens"]
  /\ ret' = resolveTokens(flatTokens)
  /\ UNCHANGED <<memoryVars, pageVars, flatTokens, loaderVars, buildVars>>

NextResolve ==
  \/ \E p \in Paths : ResolveReferenceCall(p)
  \/ \E p \in Paths : ToCSSSyntaxCall(p)
  \/ ResolveTokensCall

SpecResolve == InitResolve /\ [][NextResolve]_vars

(***************************************************************************)
(* The loader model: loadJsonFiles starts from {} and merges the parsed    *)
(* content of one JSON file after the other.  The files hold a node under  *)
(* the key c: a token (with or without metadata), a primitive, an array,   *)
(* null, or a group of such nodes under the keys a and b.                  *)
(***************************************************************************)
KeyA == <<"a">>
KeyB == <<"b">>
KeyC == <<"c">>

Token(v) == Obj(One(KeyValue, v))
TokenWithMeta(v) == Obj(Two(KeyValue, v, KeyA, Str(<<"m">>)))

LeafNodes == {Token(Str(<<"#", "0">>)), Token(Str(<<"#", "1">>)), Token(Null),
              TokenWithMeta(Str(<<"#", "0">>)),
              Num(<<"4">>), Num(<<"0">>), Str(<<"p", "x">>),
              Arr(<<Num(<<"4">>)>>), Null}
GroupLeaves == {Token(Str(<<"#", "0">>)), Token(Str(<<"#", "1">>)),
                Num(<<"4">>), Arr(<<Num(<<"4">>)>>)}
GroupNodes ==
  {Obj(One(KeyA, v)) : v \in GroupLeaves}
    \cup {Obj(One(KeyB, Token(Str(<<"#", "1">>))))}
    \cup {Obj(Two(KeyA, v, KeyB, Token(Str(<<"#", "0">>)))) : v \in GroupLeaves}
    \cup {Obj(One(KeyA, Obj(One(KeyB, Token(Str(<<"#", "0">>)))))),
          Obj(One(KeyA, Obj(One(KeyA, Token(Str(<<"#", "1">>)))))),
          Obj(NoKids)}
FileContents ==
  {Obj(One(KeyC, v)) : v \in LeafNodes \cup GroupNodes}
    \cup {Obj(One(KeyValue, Token(Str(<<"#", "1">>)))),
          Obj(Two(KeyC, Obj(One(KeyB, Token(Str(<<"#", "1">>)))),
                  KeyA, Token(Str(<<"#", "0">>))))}

InitLoad ==
  /\ tokens = Obj(NoKids)
  /\ lastMerge = NoMerge
  /\ nLoaded = 0
  /\ flatTokens = [p \in {} |-> Null]
  /\ call = NoCall
  /\ ret = NoRet
  /\ BuildIdle
  /\ MemoryIdle
  /\ PageIdle

\* tokens = deepMerge(tokens, content) for the next .json file of the directory
LoadFile(content) ==
  /\ nLoaded < MaxFiles
  /\ tokens' = deepMerge(tokens, content)
  /\ lastMerge' = [target |-> tokens, source |-> content]
  /\ nLoaded' = nLoaded + 1
  /\ UNCHANGED <<memoryVars, pageVars, resolverVars, buildVars>>

NextLoad == \E content \in FileContents : LoadFile(content)

SpecLoad == InitLoad /\ [][NextLoad]_vars

(***************************************************************************)
(* The flattening model: a nested tree is drawn, then flattenTokens is     *)
(* called on it.  Below the root the trees hold tokens, tokens with        *)
(* metadata, a token inside a token, primitives, null, arrays and groups;  *)
(* the root keys are c, a, the empty string, the dotted key "c.a" and the  *)
(* keys "c-a", "c_a" and "cA", which are all keys a JSON object can have.  *)
(***************************************************************************)
KeyEmpty == <<>>
KeyDotted == <<"c", ".", "a">>
KeyHyphened == <<"c", "-", "a">>
KeyUnderscored == <<"c", "_", "a">>
KeyCamel == <<"c", "A">>

FlattenNodes ==
  LeafNodes \cup GroupNodes
    \cup {Arr(<<Token(Str(<<"#", "0">>))>>),
          Obj(Two(KeyValue, Str(<<"#", "0">>), KeyA, Token(Str(<<"#", "1">>)))),
          Obj(One(KeyA, Arr(<<Token(Str(<<"#", "1">>)), Num(<<"4">>)>>)))}

FlattenTrees ==
  {Obj(One(k, v)) : k \in {KeyC, KeyEmpty, KeyDotted}, v \in FlattenNodes}
    \cup {Obj(Two(KeyC, v, k, Token(Str(<<"#", "1">>)))) :
            k \in {KeyA, KeyDotted, KeyHyphened, KeyUnderscored, KeyCamel}, v \in GroupNodes}
    \cup {Obj(Two(KeyEmpty, v, KeyA, Token(Str(<<"#", "1">>)))) : v \in GroupNodes}

InitFlatten ==
  /\ tokens \in FlattenTrees
  /\ flatTokens = [p \in {} |-> Null]
  /\ call = NoCall
  /\ ret = NoRet
  /\ lastMerge = NoMerge
  /\ nLoaded = 0
  /\ BuildIdle
  /\ MemoryIdle
  /\ PageIdle

\* const flatTokens = flattenTokens(tokens)
FlattenTokensCall ==
  /\ call = NoCall
  /\ call' = [fn |-> "flattenTokens", path |-> <<>>]
  /\ flatTokens' = flattenTokens(tokens)
  /\ UNCHANGED <<memoryVars, pageVars, ret, loaderVars, buildVars>>

NextFlatten == FlattenTokensCall

SpecFlatten == InitFlatten /\ [][NextFlatten]_vars

(***************************************************************************)
(* The conversion model: hexToAndroidColor is called on a color text.  The *)
(* texts are #RRGGBB and #RRGGBBAA over a few bytes in either case of the  *)
(* hex letters, and rgba(r, g, b) and rgba(r, g, b, a) over a few channel  *)
(* values and alphas; an alpha is kept with the fraction its text denotes. *)
(***************************************************************************)
HexBytes == {<<"0", "0">>, <<"3", "c">>, <<"8", "0">>, <<"f", "f">>, <<"F", "3">>}
Channels == {0, 33, 150, 243, 255}
Alphas ==
  {[text |-> <<"0">>, num |-> 0, den |-> 1],
   [text |-> <<"1">>, num |-> 1, den |-> 1],
   [text |-> <<"0", ".", "5">>, num |-> 5, den |-> 10],
   [text |-> <<".", "5">>, num |-> 5, den |-> 10],
   [text |-> <<"0", ".", "1">>, num |-> 1, den |-> 10],
   [text |-> <<"0", ".", "2", "5">>, num |-> 25, den |-> 100],
   [text |-> <<"0", ".", "5", "0", "2">>, num |-> 502, den |-> 1000],
   [text |-> <<"1", ".", "0">>, num |-> 10, den |-> 10]}
NoAlpha == [text |-> <<>>, num |-> 1, den |-> 1]

\* The color inputs: what was authored, and the text that says it
HexInput(bytes) == [kind |-> "hex", bytes |-> bytes, rgb |-> <<>>, alpha |-> NoAlpha]
RgbaInput(rgb, alpha) == [kind |-> "rgba", bytes |-> <<>>, rgb |-> rgb, alpha |-> alpha]

ColorInputs ==
  {HexInput(<<r, g, b>>) : r \in HexBytes, g \in {<<"0", "0">>, <<"F", "3">>}, b \in HexBytes}
    \cup {HexInput(<<r, g, b, a>>) :
            r \in {<<"0", "0">>, <<"F", "3">>}, g \in {<<"3", "c">>}, b \in HexBytes, a \in HexBytes}
    \cup {RgbaInput(<<r, g, b>>, a) :
            r \in Channels, g \in {0, 150}, b \in {33, 243}, a \in Alphas \cup {NoAlpha}}

RECURSIVE Concat(_)
Concat(parts) == IF parts = <<>> THEN <<>> ELSE Head(parts) \o Concat(Tail(parts))

RgbaText(rgb, alpha) ==
  <<"r", "g", "b", "a", "(">>
  \o DecNumeral(rgb[1]) \o <<",", " ">> \o DecNumeral(rgb[2]) \o <<",", " ">> \o DecNumeral(rgb[3])
  \o (IF alpha = NoAlpha THEN <<>> ELSE <<",", " ">> \o alpha.text)
  \o <<")">>

ColorText(input) ==
  IF input.kind = "hex" THEN <<"#">> \o Concat(input.bytes)
  ELSE RgbaText(input.rgb, input.alpha)

\* What a call returned: the string, or null
Returned(text) ==
  [out |-> IF text = NoColor THEN Null ELSE Str(text),
   warns |-> {}, depth |-> 0, runaway |-> FALSE]

InitConvert ==
  /\ call = NoCall
  /\ ret = NoRet
  /\ flatTokens = [p \in {} |-> Null]
  /\ tokens = Obj(NoKids)
  /\ lastMerge = NoMerge
  /\ nLoaded = 0
  /\ BuildIdle
  /\ MemoryIdle
  /\ PageIdle

\* const androidColor = hexToAndroidColor(value)
HexToAndroidColorCall(input) ==
  /\ call = NoCall
  /\ call' = [fn |-> "hexToAndroidColor", path |-> ColorText(input), input |-> input]
  /\ ret' = Returned(hexToAndroidColor(ColorText(input)))
  /\ UNCHANGED <<memoryVars, pageVars, flatTokens, loaderVars, buildVars>>

NextConvert == \E input \in ColorInputs : HexToAndroidColorCall(input)

SpecConvert == InitConvert /\ [][NextConvert]_vars

(***************************************************************************)
(* The formatting model: a flat token map is drawn and resolved, then the  *)
(* generators are run on its entries in one of the orders in which the     *)
(* entries can have been inserted.  The paths differ in a letter, in the   *)
(* case of a letter and in length; the values are a color and a dimension. *)
(***************************************************************************)
SortPaths == {<<"c", ".", "a">>, <<"c", ".", "A">>, <<"c", ".", "b">>, <<"s">>}
SortValues == {Str(<<"#", "2", "1", "9", "6", "f", "3">>), Str(<<"8", "p", "x">>)}

\* Object.entries(object) for every insertion order of the keys
RECURSIVE Orders(_)
Orders(keys) ==
  IF keys = {} THEN {<<>>}
  ELSE UNION {{<<key>> \o rest : rest \in Orders(keys \ {key})} : key \in keys}

\* What the four generators emit for the entries sorted
Formatted(resolved, sorted) ==
  [out     |-> Null, warns |-> {}, depth |-> 0, runaway |-> FALSE,
   sorted  |-> sorted,
   css     |-> CssLines(resolved, sorted),
   colors  |-> AndroidColorsOf(resolved, sorted),
   dimens  |-> AndroidDimensOf(resolved, sorted),
   swift   |-> SwiftColorsOf(resolved, sorted)]

InitFormat ==
  /\ flatTokens \in [SortPaths -> {Token(v) : v \in SortValues}]
  /\ call = NoCall
  /\ ret = NoRet
  /\ tokens = Obj(NoKids)
  /\ lastMerge = NoMerge
  /\ nLoaded = 0
  /\ BuildIdle
  /\ MemoryIdle
  /\ PageIdle

\* The generators called on the resolved tokens, inserted in this order
FormatCall(order) ==
  /\ call = NoCall
  /\ call' = [fn |-> "format", path |-> <<>>, order |-> order]
  /\ ret' = Formatted(resolveTokens(flatTokens).snapshot, sort(order))
  /\ UNCHANGED <<memoryVars, pageVars, flatTokens, loaderVars, buildVars>>

NextFormat == \E order \in Orders(DOMAIN flatTokens) : FormatCall(order)

SpecFormat == InitFormat /\ [][NextFormat]_vars

(***************************************************************************)
(* The build model: the script runs once, from the loop over the themes to *)
(* the end of build(), on token sources drawn at the start.  The sources   *)
(* are tokens/color with the raw color c.r, tokens/foundation/spacing.json *)
(* with the dimensions s and fontSize.m, a theme file for each theme with  *)
(* the token c.a, and tokens/components with c.d, which refers to c.a.     *)
(* A theme file gives c.a as a reference to the raw color, as an rgba      *)
(* literal, as a reference back to c.d, or as a reference to no token; or  *)
(* it gives the dimension s a value of its own and no c.a; or it is        *)
(* absent, or it is no JSON.  A file that throws when parsed ends          *)
(* the process with an uncaught SyntaxError and exit status 1; a run that  *)
(* reaches the end of the script ends with exit status 0.                  *)
(***************************************************************************)
KeyR == <<"r">>
KeyD == <<"d">>
KeyS == <<"s">>
KeyM == <<"m">>

ColorFile == Obj(One(KeyC, Obj(One(KeyR, Token(Str(<<"#", "2", "1", "9", "6", "f", "3">>))))))
SpacingFile ==
  Obj(Two(KeyS, Token(Str(<<"8", "p", "x">>)),
          FONT_SIZE, Obj(One(KeyM, Token(Str(<<"1", "6", "p", "x">>))))))
ComponentsFile == Obj(One(KeyC, Obj(One(KeyD, Token(Str(<<"{", "c", ".", "a", "}">>))))))

ThemeFile(v) == Obj(One(KeyC, Obj(One(KeyA, Token(Str(v))))))
ThemeRef == ThemeFile(<<"{", "c", ".", "r", "}">>)
ThemeRgba == ThemeFile(<<"r", "g", "b", "a", "(", "0", ",", " ", "0", ",", " ", "0", ",", " ", "0", ".", "5", ")">>)
ThemeCircular == ThemeFile(<<"{", "c", ".", "d", "}">>)
ThemeUnresolved == ThemeFile(<<"{", "c", ".", "z", "}">>)
ThemeDimension == Obj(One(KeyS, Token(Str(<<"4", "p", "x">>))))
ThemeFiles ==
  {Missing, Unparsable, ThemeRef, ThemeRgba, ThemeCircular, ThemeUnresolved, ThemeDimension}

FileSystems ==
  {[color |-> <<ColorFile>>, spacing |-> sp, theme |-> th, components |-> <<ComponentsFile>>] :
     sp \in {Missing, SpacingFile}, th \in [ThemeSet -> ThemeFiles]}

\* The names of the output files
TOKENS_CSS == <<"t", "o", "k", "e", "n", "s", ".", "c", "s", "s">>
TOKENS_JSON == <<"t", "o", "k", "e", "n", "s", ".", "j", "s", "o", "n">>
DIMENS_XML == <<"d", "i", "m", "e", "n", "s", ".", "x", "m", "l">>
FONT_DIMENS_XML == <<"f", "o", "n", "t", "_", "d", "i", "m", "e", "n", "s", ".", "x", "m", "l">>
STYLE_DICTIONARY_SWIFT == <<"S", "t", "y", "l", "e", "D", "i", "c", "t", "i", "o", "n", "a", "r", "y", ".", "s", "w", "i", "f", "t">>

\* One name for the Android color file of every theme
AndroidColorsFile_OneName(theme) == <<"c", "o", "l", "o", "r", "s", ".", "x", "m", "l">>

\* theme === 'classic-light' ? 'colors.xml' : `colors-${theme}.xml`
AndroidColorsFile(theme) ==
  IF theme = CLASSIC_LIGHT THEN <<"c", "o", "l", "o", "r", "s", ".", "x", "m", "l">>
  ELSE <<"c", "o", "l", "o", "r", "s", "-">> \o theme \o <<".", "x", "m", "l">>

\* `${className}.swift`
SwiftColorsFile(theme) == ClassName(theme) \o <<".", "s", "w", "i", "f", "t">>

\* fs.writeFileSync(name, content)
WriteFile(files, name, content) ==
  [f \in DOMAIN files \cup {name} |-> IF f = name THEN content ELSE files[f]]

\* console.log, console.warn and the report of an uncaught exception
Log(text, about) == [level |-> "log", text |-> text, about |-> about]
Warn(text, about) == [level |-> "warn", text |-> text, about |-> about]
Uncaught(text, about) == [level |-> "error", text |-> text, about |-> about]

\* The warnings of the resolutions of one theme
Warnings(warns) == IF warns = {} THEN <<>> ELSE <<Warn("circular", warns)>>

InitBuild ==
  /\ fsys \in FileSystems
  /\ pc = "themes"
  /\ themeIndex = 1
  /\ themeOutputs = NoOutputs
  /\ written = NoOutputs
  /\ console = <<>>
  /\ exited = FALSE
  /\ exitCode = 0
  /\ flatTokens = [p \in {} |-> Null]
  /\ call = NoCall
  /\ ret = NoRet
  /\ tokens = Obj(NoKids)
  /\ lastMerge = NoMerge
  /\ nLoaded = 0
  /\ MemoryIdle
  /\ PageIdle

\* A loop that is left after its first turn
Advance_AfterFirst(next) ==
  /\ themeIndex' = 1
  /\ pc' = next

\* The loop counter after one more turn, and the statement after the loop
Advance(next) ==
  IF themeIndex < Len(THEMES)
  THEN /\ themeIndex' = themeIndex + 1
       /\ pc' = pc
  ELSE /\ themeIndex' = 1
       /\ pc' = next

\* themeOutputs[theme] = resolvedTokens, with what the turn printed
ThemeProcessed(theme, resolved) ==
  /\ themeOutputs' = WriteFile(themeOutputs, theme, resolved.snapshot)
  /\ console' = console \o <<Log("processing", theme)>> \o Warnings(resolved.warns)
                        \o <<Log("found", Cardinality(DOMAIN resolved.snapshot))>>

\* One turn of the loop over THEMES: load, flatten, resolve
ProcessTheme ==
  /\ pc = "themes"
  /\ ~LoadThrows(fsys)
  /\ ThemeProcessed(THEMES[themeIndex],
                    resolveTokens(flattenTokens(loadThemeTokens(THEMES[themeIndex], fsys))))
  /\ Advance("css")
  /\ UNCHANGED <<memoryVars, pageVars, fsys, written, exited, exitCode, resolverVars, loaderVars>>

\* JSON.parse throws in loadThemeTokens: nothing catches it, the process ends
ProcessThemeThrows ==
  /\ pc = "themes"
  /\ LoadThrows(fsys)
  /\ console' = console \o <<Log("processing", THEMES[themeIndex]),
                             Uncaught("SyntaxError", <<>>)>>
  /\ pc' = "crashed"
  /\ exited' = TRUE
  /\ exitCode' = 1
  /\ UNCHANGED <<memoryVars, pageVars, fsys, themeIndex, themeOutputs, written, resolverVars, loaderVars>>

\* A statement that writes one file and goes on to the next statement
Writes(at, name, content, next) ==
  /\ pc = at
  /\ written' = WriteFile(written, name, content)
  /\ console' = Append(console, Log("written", name))
  /\ pc' = next
  /\ UNCHANGED <<memoryVars, pageVars, fsys, themeIndex, themeOutputs, exited, exitCode, resolverVars, loaderVars>>

\* A turn of a loop over THEMES that writes the file of one theme
WritesForTheme(at, name, content, next) ==
  /\ pc = at
  /\ written' = WriteFile(written, name, content)
  /\ console' = Append(console, Log("written", name))
  /\ Advance(next)
  /\ UNCHANGED <<memoryVars, pageVars, fsys, themeOutputs, exited, exitCode, resolverVars, loaderVars>>

WriteTokensCss == Writes("css", TOKENS_CSS, TokensCss(themeOutputs), "json")

WriteTokensJson == Writes("json", TOKENS_JSON, TokensJson(themeOutputs), "androidColors")

WriteAndroidColors ==
  WritesForTheme("androidColors", AndroidColorsFile(THEMES[themeIndex]),
                 generateAndroidColors(themeOutputs[THEMES[themeIndex]], THEMES[themeIndex]),
                 "dimens")

WriteAndroidDimens ==
  Writes("dimens", DIMENS_XML, generateAndroidDimens(themeOutputs[CLASSIC_LIGHT]), "fontDimens")

WriteAndroidFontDimens ==
  Writes("fontDimens", FONT_DIMENS_XML, generateAndroidFontDimens(themeOutputs[CLASSIC_LIGHT]),
         "swiftColors")

WriteSwiftColors ==
  WritesForTheme("swiftColors", SwiftColorsFile(THEMES[themeIndex]),
                 generateSwiftColors(themeOutputs[THEMES[themeIndex]], THEMES[themeIndex]),
                 "swiftShared")

WriteSwiftShared ==
  Writes("swiftShared", STYLE_DICTIONARY_SWIFT, generateSwiftShared(themeOutputs[CLASSIC_LIGHT]),
         "summary")

\* The summary is printed, build() returns and the script ends
BuildComplete ==
  /\ pc = "summary"
  /\ console' = console \o <<Log("complete", Len(THEMES)),
                             Log("tokens", Cardinality(DOMAIN themeOutputs[CLASSIC_LIGHT]))>>
  /\ pc' = "done"
  /\ exited' = TRUE
  /\ exitCode' = 0
  /\ UNCHANGED <<memoryVars, pageVars, fsys, themeIndex, themeOutputs, written, resolverVars, loaderVars>>

NextBuild ==
  \/ ProcessTheme
  \/ ProcessThemeThrows
  \/ WriteTokensCss
  \/ WriteTokensJson
  \/ WriteAndroidColors
  \/ WriteAndroidDimens
  \/ WriteAndroidFontDimens
  \/ WriteSwiftColors
  \/ WriteSwiftShared
  \/ BuildComplete

SpecBuild == InitBuild /\ [][NextBuild]_vars

(***************************************************************************)
(* The same functions on objects in memory.  heap is the sequence of the   *)
(* objects and Sets created so far, an address is a position in it, and a  *)
(* property of an object holds a primitive value or the address of another *)
(* object.  An object literal, a spread and new Set create an object; an   *)
(* assignment to a property and Set.add write into one that exists.  What  *)
(* a call wrote into the objects that were there before it is read off by  *)
(* comparing heap with the memory the call started from.                   *)
(***************************************************************************)
At(a) == [t |-> "at", a |-> a]
ObjectCell(kids) == [kind |-> "object", kids |-> kids]
SetCell(elems) == [kind |-> "set", elems |-> elems]

\* {} / { ... } / new Set(...): a new object at the next address
Allocated(h, cell) == [heap |-> Append(h, cell), at |-> Len(h) + 1]

\* object[key] = slot
Assigned(h, a, key, slot) == [h EXCEPT ![a].kids = (key :> slot) @@ @]

\* set.add(elem)
Added(h, a, elem) == [h EXCEPT ![a].elems = @ \cup {elem}]

\* The properties a spread or a for...in reads from what a slot holds
SpreadAt(h, slot) == IF slot.t = "at" THEN h[slot.a].kids ELSE Spread(slot)

\* slot && typeof slot === 'object' && !Array.isArray(slot)
IsPlainObjectAt(slot) == slot.t = "at"

\* slot && typeof slot === 'object'
IsObjectLikeAt(slot) == slot.t \in {"at", "arr"}

\* slot.value !== undefined
HasValueAt(h, slot) == slot.t = "at" /\ KeyValue \in DOMAIN h[slot.a].kids

\* JSON.parse: the objects of a parsed file, each at an address of its own
RECURSIVE Parsed(_, _)
RECURSIVE ParsedKids(_, _, _, _)
ParsedKid(child, a, key, kids, keys) ==
  ParsedKids(Assigned(child.heap, a, key, child.slot), a, kids, keys)

ParsedNext(h, a, key, kids, keys) ==
  ParsedKid(Parsed(h, kids[key]), a, key, kids, keys \ {key})

ParsedKids(h, a, kids, keys) ==
  IF keys = {} THEN [heap |-> h, slot |-> At(a)]
  ELSE ParsedNext(h, a, CHOOSE key \in keys : TRUE, kids, keys)

Parsed(h, v) ==
  IF v.t = "obj"
  THEN ParsedKids(Append(h, ObjectCell(NoKids)), Len(h) + 1, v.kids, DOMAIN v.kids)
  ELSE [heap |-> h, slot |-> v]

\* The value a slot holds, with the objects it leads to
RECURSIVE Load(_, _)
Load(h, slot) ==
  IF slot.t = "at"
  THEN Obj([key \in DOMAIN h[slot.a].kids |-> Load(h, h[slot.a].kids[key])])
  ELSE slot

\* const result = target, the object itself and no copy of it
SpreadCopy_SameObject(h, target) ==
  IF target.t = "at" THEN [heap |-> h, at |-> target.a]
  ELSE Allocated(h, ObjectCell(SpreadAt(h, target)))

\* { ...target }: a new object with the properties of target
SpreadCopy(h, target) == Allocated(h, ObjectCell(SpreadAt(h, target)))

\* result[key] || {}
OrEmptyAt(h, result, key) ==
  IF /\ key \in DOMAIN h[result].kids
     /\ (h[result].kids[key].t = "at" \/ Truthy(h[result].kids[key]))
  THEN [heap |-> h, slot |-> h[result].kids[key]]
  ELSE [heap |-> Append(h, ObjectCell(NoKids)), slot |-> At(Len(h) + 1)]

RECURSIVE deepMergeAt(_, _, _)
RECURSIVE MergeKeys(_, _, _, _)

\* result[key] = deepMerge(result[key] || {}, source[key]), then the next key
MergedInto(inner, result, source, key, keys) ==
  MergeKeys(Assigned(inner.heap, result, key, At(inner.at)), result, source, keys)

MergeNested(existing, result, source, key, keys) ==
  MergedInto(deepMergeAt(existing.heap, existing.slot, existing.heap[source].kids[key].a),
             result, source, key, keys)

\* The body of the loop over the keys of source, for one key
MergeKey(h, result, source, key, keys) ==
  IF IsPlainObjectAt(h[source].kids[key]) /\ ~HasValueAt(h, h[source].kids[key])
  THEN MergeNested(OrEmptyAt(h, result, key), result, source, key, keys)
  ELSE MergeKeys(Assigned(h, result, key, h[source].kids[key]), result, source, keys)

\* for (const key in source), the keys still to come
MergeKeys(h, result, source, keys) ==
  IF keys = {} THEN [heap |-> h, at |-> result]
  ELSE MergeKey(h, result, source, CHOOSE key \in keys : TRUE,
                keys \ {CHOOSE key \in keys : TRUE})

MergeFrom(result, source) ==
  MergeKeys(result.heap, result.at, source, DOMAIN result.heap[source].kids)

\* deepMerge(target, source): target is a slot, source the address of an object
deepMergeAt(h, target, source) == MergeFrom(SpreadCopy(h, target), source)

\* Object.assign(result, inner)
ObjectAssigned(h, result, inner) == [h EXCEPT ![result].kids = h[inner].kids @@ @]

RECURSIVE flattenTokensAt(_, _, _)
RECURSIVE FlattenKeys(_, _, _, _, _)

\* Object.assign(result, flattenTokens(value, newKey)), then the next key
FlattenedInto(inner, result, obj, prefix, keys) ==
  FlattenKeys(ObjectAssigned(inner.heap, result, inner.at), result, obj, prefix, keys)

\* The body of the loop over the keys of obj, for one key
FlattenKey(h, result, obj, prefix, key, keys) ==
  IF ~IsObjectLikeAt(SpreadAt(h, obj)[key])
  THEN FlattenKeys(h, result, obj, prefix, keys)
  ELSE IF HasValueAt(h, SpreadAt(h, obj)[key])
  THEN FlattenKeys(Assigned(h, result, NewKey(prefix, key), SpreadAt(h, obj)[key]),
                   result, obj, prefix, keys)
  ELSE FlattenedInto(flattenTokensAt(h, SpreadAt(h, obj)[key], NewKey(prefix, key)),
                     result, obj, prefix, keys)

\* for (const key in obj), the keys still to come
FlattenKeys(h, result, obj, prefix, keys) ==
  IF keys = {} THEN [heap |-> h, at |-> result]
  ELSE FlattenKey(h, result, obj, prefix, CHOOSE key \in keys : TRUE,
                  keys \ {CHOOSE key \in keys : TRUE})

FlattenFrom(result, obj, prefix) ==
  FlattenKeys(result.heap, result.at, obj, prefix, DOMAIN SpreadAt(result.heap, obj))

\* flattenTokens(obj, prefix): const result = {}, then the loop
flattenTokensAt(h, obj, prefix) == FlattenFrom(Allocated(h, ObjectCell(NoKids)), obj, prefix)

\* flatTokens[refPath].value
TokenValueAt(h, flat, refPath) == h[h[flat].kids[refPath].a].kids[KeyValue]

Out(h, v) == [heap |-> h, out |-> v]
Prefixed(chars, rest) == [rest EXCEPT !.out = chars \o @]
CoercedAt(r) == [r EXCEPT !.out = StringOf(@)]
StrOut(r) == [r EXCEPT !.out = Str(@)]

\* new Set(seen)
SetCopy(h, seen) == Allocated(h, SetCell(h[seen].elems))

RECURSIVE resolveReferenceAt(_, _, _, _, _)
RECURSIVE ReplaceAt(_, _, _, _, _, _)

\* newSeen.add(refPath); return resolveReference(token.value, flatTokens, newSeen)
NestedAt(newSeen, refPath, flat, fuel) ==
  CoercedAt(resolveReferenceAt(Added(newSeen.heap, newSeen.at, refPath),
                               TokenValueAt(newSeen.heap, flat, refPath),
                               flat, newSeen.at, fuel - 1))

\* The callback of value.replace in resolveReference, for one match
CallbackAt(h, match, refPath, flat, seen, fuel) ==
  IF refPath \in h[seen].elems THEN Out(h, match)
  ELSE IF /\ refPath \in DOMAIN h[flat].kids
          /\ HasValueAt(h, h[flat].kids[refPath])
  THEN NestedAt(SetCopy(h, seen), refPath, flat, fuel)
  ELSE Out(h, match)

ThenRest(one, s, next, flat, seen, fuel) ==
  Prefixed(one.out, ReplaceAt(one.heap, s, next, flat, seen, fuel))

ReplaceAt(h, s, i, flat, seen, fuel) ==
  IF i > Len(s) THEN Out(h, <<>>)
  ELSE IF MatchEnd(s, i) = 0
  THEN Prefixed(<<s[i]>>, ReplaceAt(h, s, i + 1, flat, seen, fuel))
  ELSE ThenRest(CallbackAt(h, SubSeq(s, i, MatchEnd(s, i)),
                           SubSeq(s, i + 1, MatchEnd(s, i) - 1), flat, seen, fuel),
                s, MatchEnd(s, i) + 1, flat, seen, fuel)

\* resolveReference(value, flatTokens, seen): flatTokens and seen are addresses
resolveReferenceAt(h, value, flat, seen, fuel) ==
  IF fuel = 0 \/ ~IsString(value) THEN Out(h, value)
  ELSE IF ~Includes(value.s, "{") THEN Out(h, value)
  ELSE StrOut(ReplaceAt(h, value.s, 1, flat, seen, fuel))

\* One Set of seen paths for all calls: the Set created last is used again.
DefaultSeen_LastSet(h) ==
  IF \E a \in 1..Len(h) : h[a].kind = "set"
  THEN [heap |-> h, at |-> CHOOSE a \in 1..Len(h) :
                             h[a].kind = "set" /\ \A b \in a + 1..Len(h) : h[b].kind # "set"]
  ELSE Allocated(h, SetCell({}))

\* seen = new Set(), the default of the parameter, evaluated by every call
\* that passes no seen
DefaultSeen(h) == Allocated(h, SetCell({}))

\* resolveReference(value, flatTokens)
ResolveWith(seen, value, flat) == resolveReferenceAt(seen.heap, value, flat, seen.at, MaxDepth)
ResolveAt(h, value, flat) == ResolveWith(DefaultSeen(h), value, flat)

KeyCssValue == <<"c", "s", "s", "V", "a", "l", "u", "e">>
KeyResolvedValue == <<"r", "e", "s", "o", "l", "v", "e", "d", "V", "a", "l", "u", "e">>

\* toCSSSyntax(token.value, flatTokens), which creates no object and writes none
CssValueAt(h, flat, key) ==
  toCSSSyntax(TokenValueAt(h, flat, key), Load(h, At(flat)).kids).out

RECURSIVE ResolveKeys(_, _, _, _)

\* resolved[key] = { ...token, cssValue: ..., resolvedValue: ... }
ResolvedRecord(r, copy, resolved, flat, key, keys) ==
  ResolveKeys(Assigned(Assigned(Assigned(r.heap, copy, KeyCssValue, CssValueAt(r.heap, flat, key)),
                                copy, KeyResolvedValue, r.out),
                       resolved, key, At(copy)),
              resolved, flat, keys)

Resolving(copy, resolved, flat, key, keys) ==
  ResolvedRecord(ResolveAt(copy.heap, TokenValueAt(copy.heap, flat, key), flat),
                 copy.at, resolved, flat, key, keys)

\* for (const [key, token] of Object.entries(flatTokens)), the keys still to come
ResolveKeys(h, resolved, flat, keys) ==
  IF keys = {} THEN [heap |-> h, at |-> resolved]
  ELSE Resolving(SpreadCopy(h, h[flat].kids[CHOOSE key \in keys : TRUE]),
                 resolved, flat, CHOOSE key \in keys : TRUE,
                 keys \ {CHOOSE key \in keys : TRUE})

ResolveFrom(resolved, flat) ==
  ResolveKeys(resolved.heap, resolved.at, flat, DOMAIN resolved.heap[flat].kids)

\* resolveTokens(flatTokens): const resolved = {}, then the loop
resolveTokensAt(h, flat) == ResolveFrom(Allocated(h, ObjectCell(NoKids)), flat)

(***************************************************************************)
(* The memory model: two files are parsed, the second is merged over the   *)
(* first, the merged tree is flattened, and the flat map is resolved, as   *)
(* loadThemeTokens and build do for a theme; or resolveReference is called *)
(* on a token of the flat map with a Set of the caller.  tokens,           *)
(* flatTokens and ret hold the addresses the calls returned, call the last *)
(* call with the memory it started from.                                   *)
(***************************************************************************)
Literal0 == Str(<<"#", "0">>)
RefTo(path) == Str(<<"{">> \o path \o <<"}">>)
PathCA == <<"c", ".", "a">>
PathCB == <<"c", ".", "b">>

MemoryTrees ==
  {Obj(One(KeyC, Obj(Two(KeyA, Token(Literal0), KeyB, Token(RefTo(PathCA)))))),
   Obj(One(KeyC, Obj(One(KeyA, Token(RefTo(PathCB)))))),
   Obj(One(KeyC, Obj(One(KeyB, TokenWithMeta(RefTo(PathCB)))))),
   Obj(Two(KeyC, Obj(One(KeyB, Token(Num(<<"4">>)))), KeyA, Token(RefTo(PathCB)))),
   Obj(One(KeyC, Obj(One(KeyA, Obj(One(KeyD, Token(Str(RefTo(PathCB).s \o <<" ">> \o RefTo(PathCA).s)))))))),
   Obj(One(KeyC, Token(Str(<<"#", "1">>)))),
   Obj(Two(KeyC, Arr(<<Num(<<"4">>)>>), KeyA, Str(<<"m">>)))}

SeenSets == {{}, {PathCA}, {PathCB, <<"c", ".", "z">>}}

ParsedSecond(first, source) ==
  [first |-> first.slot, second |-> Parsed(first.heap, source)]
ParsedBoth(target, source) == ParsedSecond(Parsed(<<>>, target), source)

InMemory(files) ==
  /\ heap = files.second.heap
  /\ lastMerge = [target |-> files.first, source |-> files.second.slot]

InitMemory ==
  /\ \E target, source \in MemoryTrees : InMemory(ParsedBoth(target, source))
  /\ tokens = Null
  /\ flatTokens = Null
  /\ call = NoCall
  /\ ret = Null
  /\ nLoaded = 0
  /\ BuildIdle
  /\ PageIdle

\* A call that started from heap and returned r
CalledInMemory(fn, r) ==
  /\ call' = [fn |-> fn, before |-> heap]
  /\ heap' = r.heap
  /\ UNCHANGED <<lastMerge, nLoaded, buildVars, pageVars>>

\* tokens = deepMerge(tokens, content)
DeepMergeInMemory ==
  /\ call = NoCall
  /\ CalledInMemory("deepMerge", deepMergeAt(heap, lastMerge.target, lastMerge.source.a))
  /\ tokens' = At(deepMergeAt(heap, lastMerge.target, lastMerge.source.a).at)
  /\ UNCHANGED <<flatTokens, ret>>

\* const flatTokens = flattenTokens(tokens)
FlattenInMemory ==
  /\ call.fn = "deepMerge"
  /\ CalledInMemory("flattenTokens", flattenTokensAt(heap, tokens, <<>>))
  /\ flatTokens' = At(flattenTokensAt(heap, tokens, <<>>).at)
  /\ UNCHANGED <<tokens, ret>>

\* const resolvedTokens = resolveTokens(flatTokens)
ResolveTokensInMemory ==
  /\ call.fn = "flattenTokens"
  /\ CalledInMemory("resolveTokens", resolveTokensAt(heap, flatTokens.a))
  /\ ret' = At(resolveTokensAt(heap, flatTokens.a).at)
  /\ UNCHANGED <<tokens, flatTokens>>

\* resolveReference(token.value, flatTokens, seen) with a Set of the caller
WithSeen(fn, seen, value, flat) ==
  /\ call' = [fn |-> fn, before |-> seen.heap, seen |-> seen.at]
  /\ heap' = resolveReferenceAt(seen.heap, value, flat, seen.at, MaxDepth).heap
  /\ ret' = resolveReferenceAt(seen.heap, value, flat, seen.at, MaxDepth).out
  /\ UNCHANGED <<tokens, flatTokens, lastMerge, nLoaded, buildVars, pageVars>>

ResolveReferenceInMemory(p, seen) ==
  /\ call.fn = "flattenTokens"
  /\ p \in DOMAIN heap[flatTokens.a].kids
  /\ WithSeen("resolveReference", Allocated(heap, SetCell(seen)),
              TokenValueAt(heap, flatTokens.a, p), flatTokens.a)

NextMemory ==
  \/ DeepMergeInMemory
  \/ FlattenInMemory
  \/ ResolveTokensInMemory
  \/ \E p \in {PathCA, PathCB, <<"c">>, <<"c", ".", "a", ".", "d">>}, seen \in SeenSets :
       ResolveReferenceInMemory(p, seen)

SpecMemory == InitMemory /\ [][NextMemory]_vars

(***************************************************************************)
(* The resolver called again and again on one flat token map in memory, as *)
(* the loop of resolveTokens and the loop of build over the themes do.     *)
(* Every call runs in the memory the calls before it left behind, with the *)
(* Sets and the objects they created.  ret is the list of the calls made   *)
(* so far, each with its argument and what it returned.  The map has the   *)
(* tokens c.a and c.b; their values are a literal, a reference to either,  *)
(* a reference to no token, and text with one and with two references.     *)
(***************************************************************************)
RepeatPaths == {PathOf(1), PathOf(2)}
RepeatValues == {Str(<<"#", "0">>), Ref(PathOf(1)), Ref(PathOf(2)), Ref(MissingPath),
                 Embedded(PathOf(1)), TwoRefs(PathOf(1), PathOf(2))}

\* The flat map is in memory: flatTokens is its address.
FlatInMemory(parsed) ==
  /\ heap = parsed.heap
  /\ flatTokens = parsed.slot

InitRepeat ==
  /\ \E flat \in [RepeatPaths -> {Obj(One(KeyValue, v)) : v \in RepeatValues}] :
       FlatInMemory(Parsed(<<>>, Obj(flat)))
  /\ call = NoCall
  /\ ret = <<>>
  /\ tokens = Obj(NoKids)
  /\ lastMerge = NoMerge
  /\ nLoaded = 0
  /\ BuildIdle
  /\ PageIdle

\* One more call, which leaves the memory `after` and returns `result`
Called(fn, p, value, after, result) ==
  /\ Len(ret) < MaxCalls
  /\ call' = [fn |-> fn, path |-> p]
  /\ ret' = Append(ret, [fn |-> fn, path |-> p, value |-> value, result |-> result])
  /\ heap' = after
  /\ UNCHANGED <<pageVars, flatTokens, loaderVars, buildVars>>

CallReturned(fn, p, value, r) == Called(fn, p, value, r.heap, r.out)

\* One more resolveReference(token.value, flatTokens), for the token at path p
ResolveReferenceAgain(p) ==
  CallReturned("resolveReference", p, TokenValueAt(heap, flatTokens.a, p),
            ResolveAt(heap, TokenValueAt(heap, flatTokens.a, p), flatTokens.a))

\* One more toCSSSyntax(token.value, flatTokens), for the token at path p
ToCSSSyntaxAgain(p) ==
  Called("toCSSSyntax", p, TokenValueAt(heap, flatTokens.a, p), heap,
         CssValueAt(heap, flatTokens.a, p))

\* One more resolveTokens(flatTokens): the snapshot it returns is read from
\* the memory it leaves.
SnapshotReturned(r) == Called("resolveTokens", <<>>, Null, r.heap, Load(r.heap, At(r.at)))

ResolveTokensAgain == SnapshotReturned(resolveTokensAt(heap, flatTokens.a))

NextRepeat ==
  \/ \E p \in RepeatPaths : ResolveReferenceAgain(p)
  \/ \E p \in RepeatPaths : ToCSSSyntaxAgain(p)
  \/ ResolveTokensAgain

SpecRepeat == InitRepeat /\ [][NextRepeat]_vars

(***************************************************************************)
(* The theme model: the token sources hold default component tokens under  *)
(* color.component and one theme file holds overrides under component, as  *)
(* the documents describe them; the CSS block of a theme is made from them *)
(* as build makes it: loadThemeTokens, flattenTokens, resolveTokens and    *)
(* generateThemeCSS.                                                       *)
(***************************************************************************)
KeyColor == <<"c", "o", "l", "o", "r">>
KeyComponent == <<"c", "o", "m", "p", "o", "n", "e", "n", "t">>
KeyButton == <<"b", "u", "t", "t", "o", "n">>
KeyCard == <<"c", "a", "r", "d">>
ComponentNames == {KeyButton, KeyCard}

OverrideValues == {Str(<<"#", "1">>), Str(<<"{", "c", ".", "r", "}">>)}
DefaultValues == {Str(<<"#", "0">>), Str(<<"{", "c", ".", "r", "}">>)}

\* tokens/components/*.json: color.component.X for the names given
DefaultComponents(names, v) ==
  Obj(One(KeyColor, Obj(One(KeyComponent, Obj([x \in names |-> Token(v)])))))

\* tokens/foundation/theme-T.json: component.X for the names given
ThemeOverrides(names, v) == Obj(One(KeyComponent, Obj([x \in names |-> Token(v)])))

OverrideSystems ==
  {[color |-> <<ColorFile>>, spacing |-> Missing,
    theme |-> [th \in ThemeSet |-> IF th = owner THEN ThemeOverrides(over, ov) ELSE ThemeRef],
    components |-> <<DefaultComponents(defaults, dv)>>] :
     owner \in ThemeSet, over \in (SUBSET ComponentNames) \ {{}}, ov \in OverrideValues,
     defaults \in (SUBSET ComponentNames) \ {{}}, dv \in DefaultValues}

InitOverride ==
  /\ fsys \in OverrideSystems
  /\ pc = "theme"
  /\ themeIndex \in 1..Len(THEMES)
  /\ themeOutputs = NoOutputs
  /\ written = NoOutputs
  /\ console = <<>>
  /\ exited = FALSE
  /\ exitCode = 0
  /\ flatTokens = [p \in {} |-> Null]
  /\ call = NoCall
  /\ ret = NoRet
  /\ tokens = Obj(NoKids)
  /\ lastMerge = NoMerge
  /\ nLoaded = 0
  /\ MemoryIdle
  /\ PageIdle

ThemeCssFrom(theme, resolved) ==
  /\ themeOutputs' = (theme :> resolved)
  /\ written' = (TOKENS_CSS :> <<generateThemeCSS(resolved, theme, theme = CLASSIC_LIGHT)>>)

\* The block of tokens.css for the theme at themeIndex
GenerateThemeCss ==
  /\ pc = "theme"
  /\ pc' = "css"
  /\ ThemeCssFrom(THEMES[themeIndex],
                  resolveTokens(flattenTokens(loadThemeTokens(THEMES[themeIndex], fsys))).snapshot)
  /\ UNCHANGED <<fsys, themeIndex, console, exited, exitCode,
                 resolverVars, loaderVars, memoryVars, pageVars>>

NextOverride == GenerateThemeCss

SpecOverride == InitOverride /\ [][NextOverride]_vars

(***************************************************************************)
(* The page model: the ThemeManager of the token explorer, the data-theme  *)
(* attribute of the document and the item of localStorage it keeps the     *)
(* theme in.  Init is the page after new ThemeManager() on a storage that  *)
(* holds nothing, a theme written by this class, or an item left by other  *)
(* code; call is the last method called, with the theme it started from    *)
(* and the number of toggleTheme calls made in a row.                      *)
(***************************************************************************)
MaxToggles == 4   \* calls of toggleTheme in a row

\* CONFIG.THEMES: the four themes of the toggle
ThemeValues == {Str(THEMES[i]) : i \in 1..Len(THEMES)}

Quote == "\""
DigitChars == {"0", "1", "2", "3", "4", "5", "6", "7", "8", "9"}

\* JSON.stringify(value)
JSONstringify(v) ==
  CASE v.t = "str"  -> <<Quote>> \o v.s \o <<Quote>>
    [] v.t = "num"  -> v.s
    [] OTHER        -> <<"n", "u", "l", "l">>

\* The text is a JSON string with no escapes in it
IsJsonString(text) ==
  /\ Len(text) >= 2
  /\ text[1] = Quote
  /\ text[Len(text)] = Quote
  /\ \A i \in 2..(Len(text) - 1) : text[i] \notin {Quote, "\\"}

\* The text is a JSON number without sign, fraction and exponent
IsJsonNumber(text) ==
  /\ text # <<>>
  /\ \A i \in 1..Len(text) : text[i] \in DigitChars
  /\ (Len(text) > 1 => text[1] # "0")

\* JSON.parse(text): ok is FALSE when it throws a SyntaxError
JSONparse(text) ==
  IF IsJsonString(text) THEN [ok |-> TRUE, value |-> Str(SubSeq(text, 2, Len(text) - 1))]
  ELSE IF IsJsonNumber(text) THEN [ok |-> TRUE, value |-> Num(text)]
  ELSE IF text = <<"n", "u", "l", "l">> THEN [ok |-> TRUE, value |-> Null]
  ELSE [ok |-> FALSE, value |-> Null]

\* localStorage.getItem gives null for a key that holds nothing
NoItem == Null

\* StorageUtils.get(key, fallback)
StorageGet(item, available, fallback) ==
  IF ~available THEN fallback
  ELSE IF ~Truthy(item) THEN fallback
  ELSE IF JSONparse(item.s).ok THEN JSONparse(item.s).value
  ELSE fallback

\* StorageUtils.set(key, value): the item the key holds afterwards
StorageSet(item, available, value) ==
  IF available THEN Str(JSONstringify(value)) ELSE item

\* setAttribute('data-theme', theme): the attribute holds String(theme)
AttributeOf(theme) ==
  CASE theme.t = "str" -> theme
    [] theme.t = "num" -> Str(theme.s)
    [] OTHER           -> Str(<<"n", "u", "l", "l">>)

\* A toggle between the light and the dark classic theme only
NextTheme_LightDark(current) ==
  IF current = Str(CLASSIC_LIGHT) THEN Str(CLASSIC_DARK) ELSE Str(CLASSIC_LIGHT)

\* toggleTheme: newTheme
NextTheme(current) ==
  IF current = Str(CLASSIC_LIGHT) THEN Str(CLASSIC_DARK)
  ELSE IF current = Str(CLASSIC_DARK) THEN Str(ADVANCE_LIGHT)
  ELSE IF current = Str(ADVANCE_LIGHT) THEN Str(ADVANCE_DARK)
  ELSE Str(CLASSIC_LIGHT)

\* getCurrentTheme()
getCurrentTheme == currentTheme

\* The items found in storage when the page is opened
StoredItems ==
  {NoItem, Str(<<>>)}
    \cup {Str(JSONstringify(theme)) : theme \in ThemeValues}
    \cup {Str(JSONstringify(Str(<<"l", "i", "g", "h", "t">>))),
          Str(<<"l", "i", "g", "h", "t">>),
          Str(<<"n", "u", "l", "l">>),
          Str(<<"5">>)}

\* The themes other code hands to setTheme
ThemeArguments == ThemeValues \cup {Str(<<"d", "a", "r", "k">>), Null}

\* The page after setTheme(theme) on a storage that held item
AfterSetTheme(theme, item, available) ==
  [currentTheme |-> theme,
   dataTheme    |-> AttributeOf(theme),
   localStorage |-> StorageSet(item, available, theme)]

\* constructor and init: setTheme(StorageUtils.get(THEME, CLASSIC_LIGHT))
AfterConstructor(item, available) ==
  AfterSetTheme(StorageGet(item, available, Str(CLASSIC_LIGHT)), item, available)

Constructed == [fn |-> "constructor", from |-> Null, start |-> Null, run |-> 0]

InitPage ==
  /\ storageAvailable \in BOOLEAN
  /\ \E item \in StoredItems :
       /\ currentTheme = AfterConstructor(item, storageAvailable).currentTheme
       /\ dataTheme = AfterConstructor(item, storageAvailable).dataTheme
       /\ localStorage = AfterConstructor(item, storageAvailable).localStorage
  /\ call = Constructed
  /\ flatTokens = [p \in {} |-> Null]
  /\ ret = NoRet
  /\ tokens = Obj(NoKids)
  /\ lastMerge = NoMerge
  /\ nLoaded = 0
  /\ BuildIdle
  /\ MemoryIdle

PageBecomes(page) ==
  /\ currentTheme' = page.currentTheme
  /\ dataTheme' = page.dataTheme
  /\ localStorage' = page.localStorage
  /\ UNCHANGED <<storageAvailable, flatTokens, ret, loaderVars, buildVars, memoryVars>>

\* setTheme(theme)
SetTheme(theme) ==
  /\ PageBecomes(AfterSetTheme(theme, localStorage, storageAvailable))
  /\ call' = [fn |-> "setTheme", from |-> currentTheme, start |-> theme, run |-> 0]

\* toggleTheme()
ToggleTheme ==
  /\ call.run < MaxToggles
  /\ PageBecomes(AfterSetTheme(NextTheme(currentTheme), localStorage, storageAvailable))
  /\ call' = [fn    |-> "toggleTheme",
              from  |-> currentTheme,
              start |-> IF call.fn = "toggleTheme" THEN call.start ELSE currentTheme,
              run   |-> call.run + 1]

\* new ThemeManager() when the page is opened again
NewThemeManager ==
  /\ PageBecomes(AfterConstructor(localStorage, storageAvailable))
  /\ call' = [fn |-> "constructor", from |-> currentTheme, start |-> Null, run |-> 0]

NextPage ==
  \/ \E theme \in ThemeArguments : SetTheme(theme)
  \/ ToggleTheme
  \/ NewThemeManager

SpecPage == InitPage /\ [][NextPage]_vars

(***************************************************************************)
(* What the claims about the resolver speak of, stated without the         *)
(* resolver: the shape of a value and the chain of single references that  *)
(* starts at a token.                                                      *)
(***************************************************************************)
\* The whole string is one reference: the pattern ^\{[^}]+\}$.
IsSingleRef(v) ==
  /\ IsString(v)
  /\ Len(v.s) >= 3
  /\ v.s[1] = "{"
  /\ v.s[Len(v.s)] = "}"
  /\ \A i \in 2..(Len(v.s) - 1) : v.s[i] # "}"

RefTarget(v) == SubSeq(v.s, 2, Len(v.s) - 1)

\* A literal: a number, or a string without an opening brace.
IsLiteral(v) == ~IsString(v) \/ ~Includes(v.s, "{")

\* The paths named by the {path} groups that occur in the string s.
GroupPaths(s) ==
  {SubSeq(s, i + 1, j - 1) : <<i, j>> \in
     {ij \in (1..Len(s)) \X (1..Len(s)) :
        /\ ij[2] >= ij[1] + 2
        /\ s[ij[1]] = "{"
        /\ s[ij[2]] = "}"
        /\ \A m \in (ij[1] + 1)..(ij[2] - 1) : s[m] # "}"}}

\* Follow the single references from the token at path p: the chain ends in a
\* literal after some hops, runs into a path already visited (a cycle), names
\* a path that is no token (missing), or reaches a string that is neither a
\* literal nor a single reference (composite).
RECURSIVE Chain(_, _, _)
Chain(p, flat, visited) ==
  IF p \notin DOMAIN flat THEN [kind |-> "missing", path |-> p]
  ELSE IF p \in visited THEN [kind |-> "cycle", path |-> p]
  ELSE LET v == TokenValue(flat[p])
       IN IF IsSingleRef(v) THEN Chain(RefTarget(v), flat, visited \cup {p})
          ELSE IF IsLiteral(v)
          THEN [kind |-> "literal", value |-> v, hops |-> Cardinality(visited)]
          ELSE [kind |-> "composite", path |-> p]

ChainOf(p) == Chain(p, flatTokens, {})

CalledResolveReference == call.fn = "resolveReference"
CalledToCSSSyntax == call.fn = "toCSSSyntax"
CalledResolveTokens == call.fn = "resolveTokens"
Arg == TokenValue(flatTokens[call.path])

\* C1: full resolution of a token on a chain of single references that runs
\* into a cycle (a self-reference, A <-> B, a longer cycle) terminates within
\* the depth bound, logs a circular-reference warning and returns a {path}
\* placeholder, the one the warning names.
C1_CycleTerminates ==
  (CalledResolveReference /\ ChainOf(call.path).kind = "cycle")
    => /\ ~ret.runaway
       /\ ret.depth <= NTokens + 1
       /\ IsSingleRef(ret.out)
       /\ ret.warns = {CircularWarning(RefTarget(ret.out))}

C1_Witness ==
  /\ CalledResolveReference
  /\ ChainOf(call.path).kind = "cycle"
  /\ IsSingleRef(Arg)
  /\ RefTarget(Arg) # call.path
  /\ TokenValue(flatTokens[RefTarget(Arg)]) = Ref(call.path)
  /\ ret.out = Arg

\* C2: full resolution of the first token of an acyclic chain of n >= 0
\* single references returns exactly the literal value of the last token.
C2_ChainLiteral ==
  (CalledResolveReference /\ ChainOf(call.path).kind = "literal")
    => (~ret.runaway /\ ret.out = ChainOf(call.path).value)

\* C3: a reference to a path that is no token is reported as an unresolved
\* reference and the placeholder is returned unchanged.
C3_MissingSignalled ==
  (CalledResolveReference /\ Arg = Ref(MissingPath))
    => /\ ret.out = Arg
       /\ \E w \in ret.warns : w.kind = "unresolved" /\ w.path = MissingPath

\* C4 as claimed: a value that is not, as a whole string, one reference is
\* returned unchanged.
C4_NonReferenceUnchanged ==
  (CalledResolveReference /\ ~IsSingleRef(Arg)) => ret.out = Arg

\* The text a reference to path q stands for when q is a literal token or no
\* token at all.
Settled(q) == q \notin DOMAIN flatTokens \/ IsLiteral(TokenValue(flatTokens[q]))
TextFor(q) ==
  IF q \in DOMAIN flatTokens THEN StringOf(TokenValue(flatTokens[q])) ELSE RefText(q)

\* C4, amended: a value is returned unchanged when it is not a string or no
\* {path} group in it names a token; a reference embedded in text, and each of
\* several references in one string, is replaced by the text of the literal
\* token it names, the text around it kept as authored.
C4_UnchangedUnlessTokenNamed ==
  CalledResolveReference =>
    /\ (~IsString(Arg) \/ GroupPaths(Arg.s) \cap DOMAIN flatTokens = {})
         => ret.out = Arg
    /\ \A q \in Paths \cup {MissingPath} :
         (Arg = Embedded(q) /\ Settled(q))
           => ret.out = Str(<<"1", " ">> \o TextFor(q))
    /\ \A q, r \in Paths \cup {MissingPath} :
         (Arg = TwoRefs(q, r) /\ Settled(q) /\ Settled(r))
           => ret.out = Str(TextFor(q) \o <<" ">> \o TextFor(r))

C4_Witness ==
  /\ CalledResolveReference
  /\ Arg = TwoRefs(PathOf(1), PathOf(2))
  /\ TokenValue(flatTokens[PathOf(1)]) = Str(<<"#", "1">>)
  /\ TokenValue(flatTokens[PathOf(2)]) = Str(<<"#", "0">>)
  /\ ret.out = Str(<<"#", "1", " ", "#", "0">>)

\* C5: for a token whose value is one reference {q} to an existing token, the
\* cssValue is var(--q with hyphens), whatever q's own value is, and the
\* resolvedValue is the literal at the end of the chain.
C5_OneHopAndFull ==
  CalledResolveTokens =>
    \A p \in Paths :
      (IsSingleRef(TokenValue(flatTokens[p])) /\ RefTarget(TokenValue(flatTokens[p])) \in Paths)
        => /\ ret.snapshot[p].cssValue
                = Str(CssVar(RefTarget(TokenValue(flatTokens[p]))))
           /\ ChainOf(p).kind = "literal"
                => ret.snapshot[p].resolvedValue = ChainOf(p).value

\* C6: display mode reports a circular or missing reference exactly when
\* full resolution of the same token does.
C6_SameDetection ==
  CalledToCSSSyntax =>
    (ret.warns = Resolve(Arg, flatTokens).warns)

(***************************************************************************)
(* What the claim about deepMerge speaks of.                               *)
(***************************************************************************)
\* The keyed children an existing entry brings into a merge.
Existing(kids, key) == IF key \in DOMAIN kids THEN Spread(kids[key]) ELSE NoKids

\* The merge rule, as a relation between the children of the existing node,
\* the children of the source node and the node that results.
RECURSIVE FollowsRule(_, _, _)
FollowsRule(existing, source, result) ==
  /\ result.t = "obj"
  /\ DOMAIN result.kids = DOMAIN existing \cup DOMAIN source
  /\ \A key \in DOMAIN result.kids :
       IF key \notin DOMAIN source THEN result.kids[key] = existing[key]
       ELSE IF source[key].t = "obj" /\ KeyValue \in DOMAIN source[key].kids
       THEN result.kids[key] = source[key]
       ELSE IF source[key].t = "obj"
       THEN FollowsRule(Existing(existing, key), source[key].kids, result.kids[key])
       ELSE result.kids[key] = source[key]

\* The key paths that lead through groups to a token definition.
RECURSIVE TokenPathsOf(_)
TokenPathsOf(kids) ==
  UNION {IF kids[key].t # "obj" THEN {}
         ELSE IF KeyValue \in DOMAIN kids[key].kids THEN {<<key>>}
         ELSE {<<key>> \o rest : rest \in TokenPathsOf(kids[key].kids)}
           : key \in DOMAIN kids}

RECURSIVE NodeAt(_, _)
NodeAt(kids, path) ==
  IF Len(path) = 1 THEN kids[Head(path)]
  ELSE NodeAt(kids[Head(path)].kids, Tail(path))

\* C10: the result of deepMerge(target, source) follows the merge rule at
\* every key path below the two merged roots: a source node with a value
\* property replaces the existing node wholesale, a source object without one
\* is merged key by key with what exists there, a key found on one side only
\* keeps its node, an array, primitive or null of the source replaces the
\* entry; so every token definition of the source is in the result as
\* written.
C10_MergeRule ==
  nLoaded > 0 =>
    /\ FollowsRule(lastMerge.target.kids, lastMerge.source.kids, tokens)
    /\ \A path \in TokenPathsOf(lastMerge.source.kids) :
         NodeAt(tokens.kids, path) = NodeAt(lastMerge.source.kids, path)

C10_Witness ==
  /\ nLoaded = 2
  /\ lastMerge.target = Obj(One(KeyC, Obj(Two(KeyA, Token(Str(<<"#", "0">>)),
                                               KeyB, Token(Str(<<"#", "0">>))))))
  /\ lastMerge.source = Obj(One(KeyC, Obj(One(KeyA, Token(Str(<<"#", "1">>))))))
  /\ tokens = Obj(One(KeyC, Obj(Two(KeyA, Token(Str(<<"#", "1">>)),
                                     KeyB, Token(Str(<<"#", "0">>))))))

(***************************************************************************)
(* What the claims about a whole run of the build speak of.                *)
(***************************************************************************)
\* The script has run to its end or has died.
RunEnded == pc \in {"done", "crashed"} /\ exited

\* The theme's file could not be used: it is absent or it is no JSON.
ThemeFailed(th) == fsys.theme[th] \in {Missing, Unparsable}

\* The run printed an error that names the theme.
ErrorNames(th) ==
  \E i \in 1..Len(console) : console[i].level = "error" /\ console[i].about = th

\* The run printed an error or a warning.
FailureListed == \E i \in 1..Len(console) : console[i].level \in {"warn", "error"}

\* The text holds a raw {path} placeholder.
HasPlaceholder(text) == \E i \in 1..Len(text) : MatchEnd(text, i) # 0

LinesHavePlaceholder(lines) == \E i \in 1..Len(lines) : HasPlaceholder(lines[i].value)

CssHasPlaceholder ==
  /\ TOKENS_CSS \in DOMAIN written
  /\ \E i \in 1..Len(written[TOKENS_CSS]) : LinesHavePlaceholder(written[TOKENS_CSS][i].lines)

JsonHasPlaceholder ==
  /\ TOKENS_JSON \in DOMAIN written
  /\ \E th \in DOMAIN written[TOKENS_JSON] : \E path \in DOMAIN written[TOKENS_JSON][th] :
       /\ IsString(written[TOKENS_JSON][th][path].resolvedValue)
       /\ HasPlaceholder(written[TOKENS_JSON][th][path].resolvedValue.s)

AndroidHasPlaceholder ==
  \E name \in {AndroidColorsFile(th) : th \in ThemeSet} \cup {DIMENS_XML, FONT_DIMENS_XML} :
    name \in DOMAIN written /\ LinesHavePlaceholder(written[name].lines)

PlaceholderWritten == CssHasPlaceholder \/ JsonHasPlaceholder \/ AndroidHasPlaceholder

\* The outputs of the theme are on disk: its block of tokens.css, its
\* Android color file and its Swift color file.
ThemeWritten(th) ==
  /\ TOKENS_CSS \in DOMAIN written
  /\ \E i \in 1..Len(written[TOKENS_CSS]) : written[TOKENS_CSS][i].theme = th
  /\ AndroidColorsFile(th) \in DOMAIN written
  /\ SwiftColorsFile(th) \in DOMAIN written

\* C7: when the source file of a theme is absent, the run that has ended
\* has reported an error naming that theme and has a non-zero exit status.
C7_MissingThemeFileFails ==
  \A th \in ThemeSet :
    (RunEnded /\ fsys.theme[th] = Missing) => (ErrorNames(th) /\ exitCode # 0)

\* C8: when the file of some theme is absent or cannot be parsed, the run
\* that has ended has still written the CSS block, the Android color file
\* and the Swift color file of every other theme.
C8_ContinuesWithRemainingThemes ==
  (RunEnded /\ \E failed \in ThemeSet : ThemeFailed(failed))
    => \A th \in ThemeSet : ~ThemeFailed(th) => ThemeWritten(th)

\* C9: a run that has ended has written a raw {path} placeholder to an
\* output only if it listed the failure and ended with a non-zero exit
\* status.
C9_NoSilentHalfResolvedFile ==
  (RunEnded /\ PlaceholderWritten) => (FailureListed /\ exitCode # 0)

(***************************************************************************)
(* What the claim about flattenTokens speaks of, stated on the tree: the   *)
(* key sequences that lead from the root to a token node through grouping  *)
(* nodes only.  A token node is an object with a value key; a grouping     *)
(* node is any other object or an array, whose children are its elements.  *)
(***************************************************************************)
IsTerminal(node) == node.t = "obj" /\ KeyValue \in DOMAIN node.kids
IsGrouping(node) == node.t \in {"obj", "arr"} /\ ~IsTerminal(node)

RECURSIVE TokenNodes(_)
TokenNodes(kids) ==
  UNION {IF IsTerminal(kids[key]) THEN {<<key>>}
         ELSE IF IsGrouping(kids[key])
         THEN {<<key>> \o rest : rest \in TokenNodes(Spread(kids[key]))}
         ELSE {}
           : key \in DOMAIN kids}

RECURSIVE NodeAtKeys(_, _)
NodeAtKeys(kids, keys) ==
  IF Len(keys) = 1 THEN kids[Head(keys)]
  ELSE NodeAtKeys(Spread(kids[Head(keys)]), Tail(keys))

\* keys.join('.')
RECURSIVE DotJoined(_)
DotJoined(keys) ==
  IF Len(keys) = 1 THEN Head(keys)
  ELSE Head(keys) \o <<".">> \o DotJoined(Tail(keys))

CalledFlattenTokens == call.fn = "flattenTokens"

\* C11: the flat map made by flattenTokens has exactly one entry for every
\* token node reached through grouping nodes only, under the dot-joined
\* sequence of its keys and holding that node, and it has no other entry.
C11_FlattenExact ==
  CalledFlattenTokens =>
    /\ DOMAIN flatTokens = {DotJoined(keys) : keys \in TokenNodes(tokens.kids)}
    /\ Cardinality(DOMAIN flatTokens) = Cardinality(TokenNodes(tokens.kids))
    /\ \A keys \in TokenNodes(tokens.kids) :
         flatTokens[DotJoined(keys)] = NodeAtKeys(tokens.kids, keys)

\* The same statement for the trees whose keys are not empty and hold no dot.
PlainKeys(keys) == \A i \in 1..Len(keys) : keys[i] # <<>> /\ ~Includes(keys[i], ".")
C11_FlattenExactOnPlainKeys ==
  (\A keys \in TokenNodes(tokens.kids) : PlainKeys(keys)) => C11_FlattenExact

(***************************************************************************)
(* What the claim about the raw colors in tokens.css speaks of.            *)
(***************************************************************************)
\* The tokens of tokens/color, the raw colors
RawColorPaths == DOMAIN flattenTokens(loadJsonFiles(fsys.color))

\* The places <<block, line>> of tokens.css that declare the variable
Declarations(name) ==
  {place \in UNION {{<<i, j>> : j \in 1..Len(written[TOKENS_CSS][i].lines)} :
                       i \in 1..Len(written[TOKENS_CSS])} :
     written[TOKENS_CSS][place[1]].lines[place[2]].name = name}

\* C12: in the tokens.css that build() has written, the variable of every
\* raw color is declared exactly once and ahead of the theme blocks; the
\* document declares variables in the blocks of the themes only, so the one
\* declaration can only be in the block that also carries the :root
\* selector, and no other block repeats it.
C12_RawColorsDeclaredOnce ==
  TOKENS_CSS \in DOMAIN written =>
    \A path \in RawColorPaths :
      /\ Cardinality(Declarations(toCSSVarName(path))) = 1
      /\ \A place \in Declarations(toCSSVarName(path)) :
           written[TOKENS_CSS][place[1]].root

(***************************************************************************)
(* What the claims about the Android color conversion speak of: the bytes  *)
(* of the expected #AARRGGBB text, computed from what was authored.        *)
(***************************************************************************)
CalledHexToAndroidColor == call.fn = "hexToAndroidColor"

\* The two upper-case hex digits of a byte value 0..255
ByteText(n) == <<UpperChar(HexDigits[(n \div 16) + 1]), UpperChar(HexDigits[(n % 16) + 1])>>

\* The nearest integer to num / den times 255, a half rounded up
AlphaByte(alpha) == (2 * alpha.num * 255 + alpha.den) \div (2 * alpha.den)

\* C13: a hex color is converted to the order #AARRGGBB: #RRGGBB gives
\* #FFRRGGBB, and #RRGGBBAA gives #AARRGGBB, the alpha byte moved to the
\* front.
C13_HexToARGB ==
  (CalledHexToAndroidColor /\ call.input.kind = "hex") =>
    ret.out = Str(<<"#">>
                  \o (IF Len(call.input.bytes) = 4 THEN toUpperCase(call.input.bytes[4])
                      ELSE <<"F", "F">>)
                  \o toUpperCase(call.input.bytes[1])
                  \o toUpperCase(call.input.bytes[2])
                  \o toUpperCase(call.input.bytes[3]))

\* C14: rgba(r, g, b) and rgba(r, g, b, a) with integer channels in 0..255
\* and a in 0..1 are converted to # and four two-digit upper-case hex bytes
\* A, R, G, B, where A is a x 255 rounded half up, and FF when a is absent.
C14_RgbaToARGB ==
  (CalledHexToAndroidColor /\ call.input.kind = "rgba") =>
    ret.out = Str(<<"#">>
                  \o (IF call.input.alpha = NoAlpha THEN <<"F", "F">>
                      ELSE ByteText(AlphaByte(call.input.alpha)))
                  \o ByteText(call.input.rgb[1])
                  \o ByteText(call.input.rgb[2])
                  \o ByteText(call.input.rgb[3]))

\* rgba(33, 150, 243, 0.5) has given #802196F3.
C14_Witness ==
  /\ CalledHexToAndroidColor
  /\ call.input = RgbaInput(<<33, 150, 243>>, [text |-> <<"0", ".", "5">>, num |-> 5, den |-> 10])
  /\ ret.out = Str(<<"#", "8", "0", "2", "1", "9", "6", "F", "3">>)

(***************************************************************************)
(* What the claims about the Android dimension files and resource names    *)
(* speak of.  The shared files are made from the classic-light snapshot.   *)
(***************************************************************************)
\* The px dimension tokens of the snapshot
PxTokens(resolved) == {path \in DOMAIN resolved : DimenEmits(resolved[path].resolvedValue)}

\* The token is under a fontSize category: fontSize is one of its segments.
UnderFontSize(path) == \E i \in 1..Len(split(path, ".")) : split(path, ".")[i] = FONT_SIZE

\* The file has an element for the token, with a value of this unit
EmittedWith(name, path, unit) ==
  \E j \in 1..Len(written[name].lines) :
    /\ written[name].lines[j].name = toAndroidResourceName(path)
    /\ endsWith(written[name].lines[j].value, unit)

DimensWritten == DIMENS_XML \in DOMAIN written /\ FONT_DIMENS_XML \in DOMAIN written

AndroidFiles == {AndroidColorsFile(th) : th \in ThemeSet} \cup {DIMENS_XML, FONT_DIMENS_XML}

\* C15: of the px dimension tokens, those under a fontSize category are in
\* the Android resources with the sp suffix and in no file with dp; every
\* other one is there with dp.
C15_FontSizeInSpOnly ==
  DimensWritten =>
    \A path \in PxTokens(themeOutputs[CLASSIC_LIGHT]) :
      IF UnderFontSize(path)
      THEN /\ \E name \in AndroidFiles \cap DOMAIN written : EmittedWith(name, path, <<"s", "p">>)
           /\ \A name \in AndroidFiles \cap DOMAIN written : ~EmittedWith(name, path, <<"d", "p">>)
      ELSE \E name \in AndroidFiles \cap DOMAIN written : EmittedWith(name, path, <<"d", "p">>)

\* s.toLowerCase()
LowerCased(text) == [i \in 1..Len(text) |-> LowerChar(text[i])]

\* The dotted path with the dots replaced by underscores
Underscored(path) == [i \in 1..Len(path) |-> IF path[i] = "." THEN "_" ELSE path[i]]

\* The names of the elements of all Android files written
AndroidNames ==
  UNION {{written[name].lines[j].name : j \in 1..Len(written[name].lines)} :
           name \in AndroidFiles \cap DOMAIN written}

AllPaths == UNION {DOMAIN themeOutputs[th] : th \in DOMAIN themeOutputs}

\* C16: every resource name in an Android file is the dotted path of a token
\* with the dots replaced by underscores and the letters in lower case.
C16_ResourceNamesLowerCase ==
  \A name \in AndroidNames : \E path \in AllPaths : name = LowerCased(Underscored(path))

(***************************************************************************)
(* What the claim about the names of the output files speaks of.  The      *)
(* Android files are written to build/android, the Swift files to          *)
(* build/ios and the web files to build/web; the file names alone already  *)
(* tell all files apart.                                                   *)
(***************************************************************************)
SharedFiles == {TOKENS_CSS, TOKENS_JSON, DIMENS_XML, FONT_DIMENS_XML, STYLE_DICTIONARY_SWIFT}
COLORS_XML == <<"c", "o", "l", "o", "r", "s", ".", "x", "m", "l">>
STYLE_DICTIONARY_COLOR_SWIFT == <<"S", "t", "y", "l", "e", "D", "i", "c", "t", "i", "o", "n", "a", "r", "y", "C", "o", "l", "o", "r", ".", "s", "w", "i", "f", "t">>

\* The names of the files written so far, in the order of the writes
RECURSIVE WrittenNames(_)
WrittenNames(messages) ==
  IF messages = <<>> THEN <<>>
  ELSE (IF Head(messages).text = "written" THEN <<Head(messages).about>> ELSE <<>>)
       \o WrittenNames(Tail(messages))

NoNameTwice(names) == \A i, j \in 1..Len(names) : names[i] = names[j] => i = j

ThemeFileNamesDistinct ==
  /\ \A t1, t2 \in ThemeSet : AndroidColorsFile(t1) = AndroidColorsFile(t2) => t1 = t2
  /\ \A t1, t2 \in ThemeSet : SwiftColorsFile(t1) = SwiftColorsFile(t2) => t1 = t2
  /\ \A t1, t2 \in ThemeSet : AndroidColorsFile(t1) # SwiftColorsFile(t2)
  /\ \A th \in ThemeSet : AndroidColorsFile(th) \notin SharedFiles
                          /\ SwiftColorsFile(th) \notin SharedFiles

\* C17, as the code has it: the Android color files and the Swift color
\* files of the four themes have pairwise distinct names, none is the name
\* of a shared file, the default theme's Android file is colors.xml, and in
\* a run no file name is written twice; every Swift color file, the default
\* theme's too, carries its theme in the name.
C17_NoFileWrittenTwice ==
  /\ ThemeFileNamesDistinct
  /\ AndroidColorsFile(CLASSIC_LIGHT) = COLORS_XML
  /\ NoNameTwice(WrittenNames(console))
  /\ \A th \in ThemeSet :
       /\ th # CLASSIC_LIGHT => includes(AndroidColorsFile(th), th)
       /\ SwiftColorsFile(th) = ClassName(th) \o <<".", "s", "w", "i", "f", "t">>

\* A run has written all thirteen files.
C17_Witness ==
  /\ pc = "done"
  /\ Len(WrittenNames(console)) = 13
  /\ Cardinality(DOMAIN written) = 13

\* C17, as stated: the names are distinct and, once the run is complete,
\* the default theme's color files are there under the canonical names
\* colors.xml and StyleDictionaryColor.swift.
C17_DefaultThemeCanonicalNames ==
  /\ ThemeFileNamesDistinct
  /\ NoNameTwice(WrittenNames(console))
  /\ pc = "done" => /\ COLORS_XML \in DOMAIN written
                    /\ STYLE_DICTIONARY_COLOR_SWIFT \in DOMAIN written

(***************************************************************************)
(* What the claim about the order of the formatters' lines speaks of.      *)
(***************************************************************************)
CalledFormat == call.fn = "format"

\* The sequence holds every path once, each before the paths that follow it
\* in the order of localeCompare.
Ascending(paths) ==
  \A i, j \in 1..Len(paths) : i < j => localeCompare(paths[i], paths[j]) < 0

\* The lines of the four generators
LinesOf(r) == [css |-> r.css, colors |-> r.colors, dimens |-> r.dimens, swift |-> r.swift]
Generated(resolved) ==
  [css    |-> generateThemeCSS(resolved, CLASSIC_LIGHT, TRUE).lines,
   colors |-> generateAndroidColors(resolved, CLASSIC_LIGHT).lines,
   dimens |-> generateAndroidDimens(resolved).lines,
   swift  |-> generateSwiftColors(resolved, CLASSIC_LIGHT).lines]

\* C18: whatever the insertion order of the entries of the flat map,
\* generateThemeCSS, generateAndroidColors, generateAndroidDimens and
\* generateSwiftColors emit the same lines in the same order, ascending by
\* token path: every insertion order is sorted into one sequence of paths,
\* and the lines are the ones the generators make from it.
C18_OrderIndependent ==
  CalledFormat =>
    /\ Ascending(ret.sorted)
    /\ {ret.sorted[i] : i \in 1..Len(ret.sorted)} = DOMAIN flatTokens
    /\ \A other \in Orders(DOMAIN flatTokens) : sort(other) = ret.sorted
    /\ LinesOf(ret) = Generated(resolveTokens(flatTokens).snapshot)

\* The entries were inserted in descending order, colors and dimensions
\* among them, and the lines have come out ascending.
C18_Witness ==
  /\ CalledFormat
  /\ call.order = <<<<"s">>, <<"c", ".", "b">>, <<"c", ".", "A">>, <<"c", ".", "a">>>>
  /\ ret.sorted = <<<<"c", ".", "a">>, <<"c", ".", "A">>, <<"c", ".", "b">>, <<"s">>>>
  /\ Len(ret.css) = 4
  /\ Len(ret.colors) = 2
  /\ Len(ret.dimens) = 2

(***************************************************************************)
(* What the claim about the independence of the themes speaks of: the      *)
(* outputs of a theme as made from the shared sources and the theme's own  *)
(* file alone, the files of the other themes taken away.                   *)
(***************************************************************************)
\* The token sources without the files of the other themes
Alone(fs, theme) ==
  [fs EXCEPT !.theme = [th \in ThemeSet |-> IF th = theme THEN fs.theme[th] ELSE Missing]]

SnapshotAlone(theme) ==
  resolveTokens(flattenTokens(loadThemeTokens(theme, Alone(fsys, theme)))).snapshot

\* The theme's block of tokens.css
CssBlockOf(theme) ==
  written[TOKENS_CSS][CHOOSE i \in 1..Len(THEMES) : THEMES[i] = theme]

\* The outputs of the theme are the ones made from this snapshot.
OutputsMadeFrom(theme, resolved) ==
  /\ theme \in DOMAIN themeOutputs
  /\ themeOutputs[theme] = resolved
  /\ TOKENS_CSS \in DOMAIN written
  /\ CssBlockOf(theme).lines = generateThemeCSS(resolved, theme, theme = CLASSIC_LIGHT).lines
  /\ AndroidColorsFile(theme) \in DOMAIN written
  /\ written[AndroidColorsFile(theme)] = generateAndroidColors(resolved, theme)
  /\ SwiftColorsFile(theme) \in DOMAIN written
  /\ written[SwiftColorsFile(theme)] = generateSwiftColors(resolved, theme)

\* C19: in a run that has ended, the snapshot of every theme whose own file
\* can be read, its CSS block, its Android color file and its Swift color
\* file are the ones its own file and the shared sources give, whatever the
\* files of the other themes hold and whether they are there.
C19_ThemesIndependent ==
  RunEnded =>
    \A th \in ThemeSet :
      fsys.theme[th] # Unparsable => OutputsMadeFrom(th, SnapshotAlone(th))

\* The same for runs in which every theme file that is there is JSON.
C19_ThemesIndependentWhenParsable ==
  (\A th \in ThemeSet : fsys.theme[th] # Unparsable) => C19_ThemesIndependent

(***************************************************************************)
(* What the claim about the calls of the resolver speaks of.               *)
(***************************************************************************)
ResolveCalls == {i \in 1..Len(ret) : ret[i].fn = "resolveReference"}

\* What resolveTokens keeps of resolveReference for the token at this path
KeptBy(snapshot, p) == snapshot.kids[p].kids[KeyResolvedValue]

\* The flat token map as it now is in memory
FlatNow == Load(heap, flatTokens).kids

\* C20: any two calls of resolveReference made on one flat token map with
\* the same value return the same value, whatever calls were made between
\* them, whatever those calls left in memory and in whatever order the
\* tokens are taken; what a call returns is what its value and the tokens
\* of the map give and nothing else; and resolveTokens, called at any
\* point, keeps for every token what the call of resolveReference on its
\* value returned.
C20_NoHiddenState ==
  /\ \A i, j \in ResolveCalls :
       ret[i].value = ret[j].value => ret[i].result = ret[j].result
  /\ \A i \in ResolveCalls : ret[i].result = Resolve(ret[i].value, FlatNow).out
  /\ \A i \in ResolveCalls : \A k \in 1..Len(ret) :
       ret[k].fn = "resolveTokens" => KeptBy(ret[k].result, ret[i].path) = ret[i].result

\* A reference has been resolved to its literal, another token has been
\* resolved after it, and the first has been resolved again in the memory
\* the two calls left, which holds the Sets they created.
C20_Witness ==
  /\ Len(ret) = 3
  /\ ResolveCalls = {1, 2, 3}
  /\ ret[1].path = ret[3].path
  /\ ret[2].path # ret[1].path
  /\ ret[1].value = Ref(ret[2].path)
  /\ ret[1].result = Str(<<"#", "0">>)
  /\ \E a \in 1..Len(heap) : heap[a].kind = "set" /\ heap[a].elems # {}

(***************************************************************************)
(* What the claim about tokens never being mutated in place speaks of.     *)
(***************************************************************************)
CalledInPlace == call # NoCall /\ "before" \in DOMAIN call

\* Every object and Set that was in memory when the call started is as it was.
NothingWritten == \A a \in 1..Len(call.before) : heap[a] = call.before[a]

\* The token the record of the snapshot was made from
SnapshotKeepsValue ==
  call.fn = "resolveTokens" =>
    \A key \in DOMAIN heap[ret.a].kids :
      /\ KeyValue \in DOMAIN heap[heap[ret.a].kids[key].a].kids
      /\ heap[heap[ret.a].kids[key].a].kids[KeyValue] = TokenValueAt(heap, flatTokens.a, key)
      /\ TokenValueAt(heap, flatTokens.a, key) = TokenValueAt(call.before, flatTokens.a, key)

\* What the calls return is what the functions on values return.
ReturnsAsComputed ==
  /\ call.fn = "deepMerge" =>
       Load(heap, tokens) = deepMerge(Load(call.before, lastMerge.target),
                                      Load(call.before, lastMerge.source))
  /\ call.fn = "flattenTokens" =>
       Load(heap, flatTokens).kids = flattenTokens(Load(call.before, tokens))
  /\ call.fn = "resolveTokens" =>
       \A key \in DOMAIN heap[ret.a].kids :
         /\ Load(heap, heap[ret.a].kids[key]).kids[KeyCssValue]
              = resolveTokens(Load(call.before, flatTokens).kids).snapshot[key].cssValue
         /\ Load(heap, heap[ret.a].kids[key]).kids[KeyResolvedValue]
              = resolveTokens(Load(call.before, flatTokens).kids).snapshot[key].resolvedValue

\* C21: deepMerge, flattenTokens, resolveTokens and resolveReference write
\* into no object and no Set that existed when they were called, so their
\* arguments, the caller's seen set among them, are left as they were; and
\* every record of the resolved snapshot has the value its token has.
C21_NeverMutatedInPlace ==
  CalledInPlace => NothingWritten /\ SnapshotKeepsValue /\ ReturnsAsComputed

\* A token that was in the first file has been merged with a group of the
\* second, and the merged tokens have been flattened and resolved.
C21_Witness ==
  /\ call # NoCall
  /\ call.fn = "resolveTokens"
  /\ Len(heap) > Len(call.before)
  /\ \E key \in DOMAIN heap[ret.a].kids :
       heap[heap[ret.a].kids[key].a].kids[KeyResolvedValue]
         # heap[heap[ret.a].kids[key].a].kids[KeyValue]
  /\ \E key \in DOMAIN heap[lastMerge.source.a].kids :
       /\ key \in DOMAIN SpreadAt(heap, lastMerge.target)
       /\ IsPlainObjectAt(heap[lastMerge.source.a].kids[key])
       /\ ~HasValueAt(heap, heap[lastMerge.source.a].kids[key])
       /\ IsPlainObjectAt(SpreadAt(heap, lastMerge.target)[key])

(***************************************************************************)
(* What the claim about the component overrides of a theme speaks of.      *)
(***************************************************************************)
ComponentPrefix == KeyComponent \o <<".">>

\* The overrides in the file of the theme: the tokens under component
OverridesOf(theme) ==
  {path \in DOMAIN flattenTokens(fsys.theme[theme]) : startsWith(path, ComponentPrefix)}

\* The name of the default component token the override stands for
DefaultName(path) == toCSSVarName(KeyColor \o <<".">> \o path)

\* The values the block declares under the name
DeclaredAs(block, name) ==
  {block.lines[i].value : i \in {j \in 1..Len(block.lines) : block.lines[j].name = name}}

\* C22: in the CSS block of a theme, every override component.X of the
\* theme's file is declared under the name of the default component token
\* color.component.X, and that name is declared with the override's value
\* only, so that the override and not the default is what the theme shows.
C22_OverrideUnderDefaultName ==
  pc = "css" =>
    \A path \in OverridesOf(THEMES[themeIndex]) :
      DeclaredAs(written[TOKENS_CSS][1], DefaultName(path))
        = {themeOutputs[THEMES[themeIndex]][path].cssValue.s}

(***************************************************************************)
(* What the claims about the ThemeManager speak of.                        *)
(***************************************************************************)
\* The theme after this one in the order of THEMES, the first after the last
Successor(theme) ==
  Str(THEMES[((CHOOSE i \in 1..Len(THEMES) : Str(THEMES[i]) = theme) % Len(THEMES)) + 1])

\* C23: a toggleTheme from one of the four themes gives the theme after it
\* in the order classic-light, classic-dark, advance-light, advance-dark,
\* classic-light; from any other current value it gives classic-light; and
\* after four toggles in a row that started from one of the four themes the
\* theme is the one they started from.
C23_ToggleCycles ==
  call.fn = "toggleTheme" =>
    /\ call.from \in ThemeValues => getCurrentTheme = Successor(call.from)
    /\ call.from \notin ThemeValues => getCurrentTheme = Str(CLASSIC_LIGHT)
    /\ (call.run = 4 /\ call.start \in ThemeValues) => getCurrentTheme = call.start

\* Four toggles in a row from advance-light have come back to it.
C23_Witness ==
  /\ call.fn = "toggleTheme"
  /\ call.run = 4
  /\ call.start = Str(ADVANCE_LIGHT)
  /\ getCurrentTheme = Str(ADVANCE_LIGHT)

\* A toggle from a value that is none of the four themes
C23_WitnessOther ==
  /\ call.fn = "toggleTheme"
  /\ call.from \notin ThemeValues
  /\ getCurrentTheme = Str(CLASSIC_LIGHT)

\* The theme the item in storage stands for
Persisted == JSONparse(localStorage.s).value

AttributeIsCurrent == dataTheme = getCurrentTheme

PersistedIsCurrent ==
  storageAvailable =>
    /\ localStorage # NoItem
    /\ JSONparse(localStorage.s).ok
    /\ Persisted = getCurrentTheme

StartsWithLastTheme ==
  (storageAvailable /\ call.fn = "constructor" /\ call # Constructed) =>
    getCurrentTheme = call.from

CurrentIsTheme == getCurrentTheme \in ThemeValues

\* C29: after the constructor and after every setTheme and toggleTheme, the
\* current theme is the data-theme attribute of the document and, with
\* storage available, the theme kept in storage; a ThemeManager made
\* afterwards starts with the theme that was current; and the current theme
\* is one of the four themes.
C29_ThemeStateConsistent ==
  /\ AttributeIsCurrent
  /\ PersistedIsCurrent
  /\ StartsWithLastTheme
  /\ CurrentIsTheme

\* The same for pages whose storage held nothing or one of the four themes
\* when they were opened and on which setTheme was called with themes only.
C29_ConsistentOnThemes ==
  [][(CurrentIsTheme /\ CurrentIsTheme') => C29_ThemeStateConsistent']_vars

(***************************************************************************)
(* What the claim about the depth of the recursion speaks of.              *)
(***************************************************************************)
\* C24: a call of resolveReference on the value of a token of a flat token
\* map, whatever references and cycles the map holds, ends, and the calls
\* nested in it are never deeper than the number of tokens of the map plus
\* one.
C24_DepthBounded ==
  CalledResolveReference =>
    /\ ~ret.runaway
    /\ ret.depth <= Cardinality(DOMAIN flatTokens) + 1

\* A cycle through every token of the map has been followed to its end, and
\* a value with two references has been resolved on the way.
C24_Witness ==
  /\ CalledResolveReference
  /\ ret.depth = Cardinality(DOMAIN flatTokens) + 1
  /\ \E p \in DOMAIN flatTokens :
       TokenValue(flatTokens[p]) = TwoRefs(PathOf(1), PathOf(2))

(***************************************************************************)
(* What the claim about resolving a resolved value again speaks of.        *)
(***************************************************************************)
\* C25: what resolveReference returned for the value of a token of a flat
\* token map is returned unchanged when resolveReference is called on it
\* with the same map, whether the map is acyclic, cyclic or has references
\* to tokens that are not there.
C25_ResolveIdempotent ==
  CalledResolveReference => Resolve(ret.out, flatTokens).out = ret.out

\* Every value of the map is a literal or one reference and nothing else.
OneReferencePerValue ==
  \A p \in DOMAIN flatTokens : TokenValue(flatTokens[p]) \in Literals \cup SingleRefs

\* C25, for the maps the token sources are meant to give: when every value
\* is a literal or one reference that is the whole value, what
\* resolveReference returned is returned unchanged when it is resolved
\* again, on acyclic maps, on cycles and with references to missing tokens.
C25_IdempotentOnSingleReferences ==
  (CalledResolveReference /\ OneReferencePerValue)
    => Resolve(ret.out, flatTokens).out = ret.out

\* A reference has been resolved through a second token to a literal.
C25_Witness ==
  /\ CalledResolveReference
  /\ OneReferencePerValue
  /\ TokenValue(flatTokens[call.path]) \in SingleRefs
  /\ ret.depth = 3
  /\ ret.out \in Literals \cup {Str(<<"4">>)}

\* A cycle of single references has been resolved to its placeholder.
C25_WitnessCycle ==
  /\ CalledResolveReference
  /\ OneReferencePerValue
  /\ ret.warns # {}
  /\ ret.depth = 3

(***************************************************************************)
(* What the claim says of the var() references of one theme's block.       *)
(***************************************************************************)
VarOpen == <<"v", "a", "r", "(">>

\* A var( opens at position i of the text.
VarOpensAt(s, i) == i + Len(VarOpen) - 1 <= Len(s) /\ SubSeq(s, i, i + Len(VarOpen) - 1) = VarOpen

\* The custom properties the text refers to: what stands between each var(
\* and the closing parenthesis after it.
VarNamesIn(s) ==
  {SubSeq(s, i + Len(VarOpen), Least({j \in i..Len(s) : s[j] = ")"}) - 1) :
     i \in {k \in 1..Len(s) : VarOpensAt(s, k) /\ \E j \in k..Len(s) : s[j] = ")"}}

\* The custom properties a block declares, and those its declarations use.
DeclaredIn(block) == {block.lines[i].name : i \in 1..Len(block.lines)}
ReferencedIn(block) == UNION {VarNamesIn(block.lines[i].value) : i \in 1..Len(block.lines)}

\* The block generateThemeCSS makes of the snapshot resolveTokens returned.
BlockOfSnapshot == generateThemeCSS(ret.snapshot, CLASSIC_LIGHT, TRUE)

\* C26: in the CSS block of one theme, every custom property that a
\* declaration refers to with var(--x) is declared in that block, also when
\* the token referred to has a number as its value.
C26_NoDanglingVar ==
  CalledResolveTokens => ReferencedIn(BlockOfSnapshot) \subseteq DeclaredIn(BlockOfSnapshot)

\* The same for the token sets in which no value is a number.
C26_NoDanglingVarAmongStrings ==
  (CalledResolveTokens /\ \A p \in Paths : IsString(TokenValue(flatTokens[p])))
    => ReferencedIn(BlockOfSnapshot) \subseteq DeclaredIn(BlockOfSnapshot)

(***************************************************************************)
(* What the claims about the order of the statements of build() speak of.  *)
(***************************************************************************)
\* The statements of build() that write a file, and the ones after them
WritingStatements ==
  {"css", "json", "androidColors", "dimens", "fontDimens", "swiftColors", "swiftShared"}
AfterTheThemes == WritingStatements \cup {"summary", "done"}

\* Every theme has been loaded, flattened and resolved.
AllThemesProcessed == DOMAIN themeOutputs = ThemeSet

\* C27: build() reaches a statement that writes a file, and a file is on
\* disk, only when all four themes have been loaded, flattened and
\* resolved; a run that died because processing a theme threw has written
\* no file.
C27_NothingWrittenBeforeAllThemes ==
  /\ (pc \in AfterTheThemes \/ written # NoOutputs) => AllThemesProcessed
  /\ pc = "crashed" => written = NoOutputs

\* The first file has been written, after the four themes.
C27_Witness ==
  /\ pc = "json"
  /\ DOMAIN written = {TOKENS_CSS}
  /\ AllThemesProcessed

\* A run has died on the file of the last theme, which is no JSON.
C27_WitnessThrown ==
  /\ pc = "crashed"
  /\ fsys.theme[ADVANCE_DARK] = Unparsable
  /\ \A th \in ThemeSet \ {ADVANCE_DARK} : fsys.theme[th] = ThemeRef
  /\ written = NoOutputs

(***************************************************************************)
(* What the claim about the shared outputs speaks of.                      *)
(***************************************************************************)
\* The three files that are written once for all themes
SharedOutputs == {DIMENS_XML, FONT_DIMENS_XML, STYLE_DICTIONARY_SWIFT}

\* The shared output of this name as made from one snapshot
SharedOutputFrom(name, resolved) ==
  IF name = DIMENS_XML THEN generateAndroidDimens(resolved)
  ELSE IF name = FONT_DIMENS_XML THEN generateAndroidFontDimens(resolved)
  ELSE generateSwiftShared(resolved)

\* The file of a theme other than classic-light gives a dimension a value.
OtherThemeHasDimension ==
  \E th \in ThemeSet \ {CLASSIC_LIGHT} : fsys.theme[th] = ThemeDimension

\* C30: dimens.xml, font_dimens.xml and StyleDictionary.swift, once
\* written, are the files that the shared sources and the classic-light
\* theme file alone give: what the files of the other themes hold, a
\* dimension token included, changes none of the three.
C30_SharedFromClassicLight ==
  \A name \in SharedOutputs \cap DOMAIN written :
    written[name] = SharedOutputFrom(name, SnapshotAlone(CLASSIC_LIGHT))

\* The three files are written, with the dimension s as spacing.json gives
\* it, while the file of another theme gives s another value.
C30_Witness ==
  /\ SharedOutputs \subseteq DOMAIN written
  /\ fsys.spacing = SpacingFile
  /\ fsys.theme[CLASSIC_LIGHT] = ThemeRef
  /\ OtherThemeHasDimension
  /\ \E j \in 1..Len(written[DIMENS_XML].lines) :
       /\ written[DIMENS_XML].lines[j].name = KeyS
       /\ written[DIMENS_XML].lines[j].value = <<"8", "d", "p">>

(***************************************************************************)
(* What the claim about the generated names speaks of.                     *)
(***************************************************************************)
\* The pairs of distinct token paths of the flat map
DistinctPaths == {pair \in (DOMAIN flatTokens) \X (DOMAIN flatTokens) : pair[1] # pair[2]}

CssNamesDistinct ==
  \A pair \in DistinctPaths : toCSSVarName(pair[1]) # toCSSVarName(pair[2])
AndroidNamesDistinct ==
  \A pair \in DistinctPaths : toAndroidResourceName(pair[1]) # toAndroidResourceName(pair[2])
SwiftNamesDistinct ==
  \A pair \in DistinctPaths : toSwiftPropertyName(pair[1]) # toSwiftPropertyName(pair[2])

\* C28: the distinct token paths of one flattened token set have distinct
\* CSS custom property names, distinct Android resource names and distinct
\* Swift property names.
C28_NamesDistinct ==
  CalledFlattenTokens => (CssNamesDistinct /\ AndroidNamesDistinct /\ SwiftNamesDistinct)

\* Each of the three kinds of names on its own.
C28_CssNamesDistinct == CalledFlattenTokens => CssNamesDistinct
C28_AndroidNamesDistinct == CalledFlattenTokens => AndroidNamesDistinct
C28_SwiftNamesDistinct == CalledFlattenTokens => SwiftNamesDistinct

\* The same for the token sets whose keys are made of lower-case letters
\* only.
IsLower(ch) == \E i \in 1..Len(LowerCase) : LowerCase[i] = ch
LowerCaseKeys ==
  \A keys \in TokenNodes(tokens.kids) : \A i \in 1..Len(keys) :
    keys[i] # <<>> /\ \A j \in 1..Len(keys[i]) : IsLower(keys[i][j])
C28_NamesDistinctOnLowerCaseKeys == LowerCaseKeys => C28_NamesDistinct

====
